---- MODULE Spec2Model ----
(***************************************************************************)
(* Audit-log service: the audit record service (internal/services/audit.go) *)
(* over the record store (repositories.AuditRepository) and the             *)
(* notification fan-out (internal/services/notification.go).                *)
(*                                                                         *)
(* Strings whose characters matter to the code (method, event) are          *)
(* sequences of one-character strings; the other string fields are TLA+     *)
(* strings, "" being Go's empty string.  Times are naturals, 0 being the    *)
(* zero time.Time.  Identifiers are naturals, 0 being the empty string and  *)
(* n >= 1 the n-th UUID handed out by uuid.New().                           *)
(***************************************************************************)
EXTENDS Integers, Sequences, FiniteSets, TLC

VARIABLES
    cfg,        \* the configuration loaded at start-up
    store,      \* the audit_logs table: identifier -> row
    nextId,     \* how many identifiers uuid.New() has handed out
    now,        \* the clock
    last,       \* the last call that returned: its request and its result
    fanout,     \* the notification goroutines that have not returned yet
    persisted,  \* history: the identifiers whose INSERT succeeded
    spawned,    \* history: the identifier of each go statement executed
    sn,         \* the SendNotification call in progress: its goroutines and channel
    http,       \* the last HTTP exchange: route, credentials, handler run, status
    cancelled,  \* the create requests whose context is done, by record identifier
    inflight    \* the delete and list calls in progress, statement by statement

vars == <<cfg, store, nextId, now, last, fanout, persisted, spawned, sn, http, cancelled, inflight>>

(***************************************************************************)
(* Bounds                                                                  *)
(***************************************************************************)
MaxIds == 2

MaxClock == 2

\* recipients configured per notification channel
MaxRecipients == 2

(***************************************************************************)
(* Strings                                                                 *)
(***************************************************************************)
LowerChars == <<"a","b","c","d","e","f","g","h","i","j","k","l","m",
                "n","o","p","q","r","s","t","u","v","w","x","y","z">>

UpperChars == <<"A","B","C","D","E","F","G","H","I","J","K","L","M",
                "N","O","P","Q","R","S","T","U","V","W","X","Y","Z">>

UpperChar(c) ==
    IF \E i \in 1..Len(LowerChars) : LowerChars[i] = c
    THEN UpperChars[CHOOSE i \in 1..Len(LowerChars) : LowerChars[i] = c]
    ELSE c

ToUpper(s) == [i \in 1..Len(s) |-> UpperChar(s[i])]

\* the place of a lower-case letter in the byte order
CharIndex(c) == CHOOSE i \in 1..Len(LowerChars) : LowerChars[i] = c

Contains(s, sub) ==
    \E i \in 0..(Len(s) - Len(sub)) :
        \A j \in 1..Len(sub) : s[i + j] = sub[j]

M_GET == <<"G","E","T">>

M_POST == <<"P","O","S","T">>

M_PUT == <<"P","U","T">>

M_DELETE == <<"D","E","L","E","T","E">>

M_PATCH == <<"P","A","T","C","H">>

M_post == <<"p","o","s","t">>

M_Get == <<"G","e","t">>

M_FETCH == <<"F","E","T","C","H">>

E_USER_CREATED == <<"U","S","E","R","_","C","R","E","A","T","E","D">>

E_user_deleted == <<"u","s","e","r","_","d","e","l","e","t","e","d">>

EmptyStr == << >>

(***************************************************************************)
(* Values of the record fields                                             *)
(***************************************************************************)
EmptyId == 0

ZeroTime == 0

\* json.RawMessage holding an object text: its members, <<key, value>>, in the
\* order written (white space left out); NoData is the nil slice
NoData == [isNil |-> TRUE, members |-> << >>]

RawObject(members) == [isNil |-> FALSE, members |-> members]

Data1 == RawObject(<< <<"a", "d1">> >>)

Data2 == RawObject(<< <<"a", "d2">> >>)

DataEmpty == RawObject(<< >>)

DataOrdered == RawObject(<< <<"a", "2">>, <<"b", "1">> >>)

DataUnordered == RawObject(<< <<"b", "1">>, <<"a", "2">> >>)

DataRepeated == RawObject(<< <<"a", "1">>, <<"a", "2">> >>)

\* an IP address text, split at the dots
IP_OK == <<192, 168, 1, 100>>

IP_NotAnIp == <<-1>>

IP_Range == <<256, 1, 1, 1>>

IP_Empty == << >>

\* map[string]interface{}: nil, or a set of <<key, value>> pairs
NilMeta == [isNil |-> TRUE, kv |-> {}]

EmptyMeta == [isNil |-> FALSE, kv |-> {}]

Meta1 == [isNil |-> FALSE, kv |-> {<<"request_id", [t |-> "string", v |-> "req-789"]>>}]

Meta2 == [isNil |-> FALSE, kv |-> {<<"a", [t |-> "float64", v |-> "1"]>>}]

MetaAB ==
    [isNil |-> FALSE,
     kv |-> {<<"a", [t |-> "float64", v |-> "1"]>>, <<"b", [t |-> "string", v |-> "x"]>>}]

JsonNull == [null |-> TRUE, kv |-> {}]

MarshalValue(v) ==
    IF v.t \in {"int", "float64"} THEN [t |-> "number", v |-> v.v]
                                  ELSE [t |-> "string", v |-> v.v]

\* json.Marshal of a map[string]interface{}
Marshal(m) ==
    IF m.isNil THEN JsonNull
    ELSE [null |-> FALSE, kv |-> {<<p[1], MarshalValue(p[2])>> : p \in m.kv}]

UnmarshalValue(j) ==
    IF j.t = "number" THEN [t |-> "float64", v |-> j.v]
                      ELSE [t |-> "string", v |-> j.v]

\* json.Unmarshal into a nil map[string]interface{}
Unmarshal(j) ==
    IF j.null THEN NilMeta
    ELSE [isNil |-> FALSE, kv |-> {<<p[1], UnmarshalValue(p[2])>> : p \in j.kv}]

(***************************************************************************)
(* Configuration                                                           *)
(***************************************************************************)
\* notification.email.to and notification.webhook.urls: MaxRecipients entries each
EmailTo ==
    [i \in 1..MaxRecipients |->
        <<"ops@example.com", "security@example.com", "audit@example.com">>[i]]

WebhookURLs ==
    [i \in 1..MaxRecipients |->
        <<"https://hooks.example.com/a", "https://hooks.example.com/b",
          "https://hooks.example.com/c">>[i]]

DefaultStatusValues == <<"pending", "processing", "completed", "failed", "archived">>

DefaultConfig ==
    [Enabled |-> TRUE, DefaultStatus |-> "pending",
     StatusValues |-> DefaultStatusValues, ErrorStatus |-> "failed",
     Email |-> TRUE, Slack |-> TRUE, Webhook |-> TRUE,
     To |-> EmailTo, URLs |-> WebhookURLs,
     JWTSecret |-> "your-secret-key", APIKeys |-> <<"key-1", "key-2">>]

Configs ==
    { DefaultConfig,
      [DefaultConfig EXCEPT !.Enabled = FALSE, !.Email = FALSE],
      [DefaultConfig EXCEPT !.StatusValues = <<"open", "closed">>,
                            !.Slack = FALSE, !.Webhook = FALSE] }

\* the configurations that differ in the audit section alone: the defaults, the
\* vocabulary switched off, and the vocabulary switched off with default_status
\* set to the empty string (Load accepts any value of the key)
AuditConfigs ==
    { DefaultConfig,
      [DefaultConfig EXCEPT !.Enabled = FALSE],
      [DefaultConfig EXCEPT !.Enabled = FALSE, !.DefaultStatus = ""] }

IsValidStatusAll(c, status) == TRUE

\* AuditConfig.IsValidStatus
IsValidStatus(c, status) ==
    IF ~c.Enabled THEN TRUE
    ELSE \E i \in 1..Len(c.StatusValues) : c.StatusValues[i] = status

(***************************************************************************)
(* Requests and records                                                    *)
(***************************************************************************)
Methods == {M_GET, M_POST, M_PUT, M_DELETE, M_PATCH}

Environments == {"development", "staging", "production"}

\* net.ParseIP on a dotted-decimal text (IPv6 forms are not modelled)
ParseIP(ip) == Len(ip) = 4 /\ \A i \in 1..4 : ip[i] \in 0..255

\* validator.Struct on a CreateAuditLogRequest: the fields whose tag fails
ValidateStructNone(req) == {}

ValidateStruct(req) ==
    {f \in {"TenantID", "UserID", "Resource", "Event", "Method", "IP", "Environment"} :
        \/ f = "TenantID" /\ req.tenant_id = ""
        \/ f = "UserID" /\ req.user_id = ""
        \/ f = "Resource" /\ req.resource = ""
        \/ f = "Event" /\ req.event = EmptyStr
        \/ f = "Method" /\ req.method \notin Methods
        \/ f = "IP" /\ ~ParseIP(req.ip)
        \/ f = "Environment" /\ req.environment \notin Environments}

\* AuditService.validateIP: TRUE when the text parses
validateIP(ip) == ParseIP(ip)

\* CreateAuditLog: the provided status or the default
ResolveStatus(c, status) == IF status = "" THEN c.DefaultStatus ELSE status

\* CreateAuditLog: Method: strings.ToUpper(req.Method)
NormalizeMethod(m) == ToUpper(m)

\* the models.AuditLog built by CreateAuditLog before it is saved
NewAuditLog(req, status) ==
    [id |-> EmptyId, tenant_id |-> req.tenant_id, user_id |-> req.user_id,
     resource |-> req.resource, event |-> req.event,
     method |-> NormalizeMethod(req.method), ip |-> req.ip, status |-> status,
     data |-> req.data, environment |-> req.environment, meta |-> req.meta,
     timestamp |-> ZeroTime, created_at |-> ZeroTime, updated_at |-> ZeroTime]

NoLog == [id |-> EmptyId]

(***************************************************************************)
(* Record store (AuditRepository over the audit_logs table)                *)
(* A row is a record with the meta column holding the JSON text.           *)
(***************************************************************************)
\* the data and meta columns are JSONB: the value kept for an object text has
\* one member per key, the last one written, in the order of the keys
Jsonb(d) ==
    IF d.isNil THEN d
    ELSE LET ms == d.members
             keys == {ms[i][1] : i \in DOMAIN ms}
             rank(k) == 1 + Cardinality({x \in keys : CharIndex(x) < CharIndex(k)})
             lastOf(k) == CHOOSE i \in DOMAIN ms :
                              /\ ms[i][1] = k
                              /\ \A j \in DOMAIN ms : ms[j][1] = k => j <= i
         IN  RawObject([n \in 1..Cardinality(keys) |->
                           LET k == CHOOSE x \in keys : rank(x) = n
                           IN  <<k, ms[lastOf(k)][2]>>])

ToRow(log) == [log EXCEPT !.meta = Marshal(log.meta), !.data = Jsonb(log.data)]

\* the INET column read back through ip::text carries its netmask length
InetText(ip) == Append(ip, 32)

FromRow(row) == [row EXCEPT !.meta = Unmarshal(row.meta), !.ip = InetText(row.ip)]

\* AuditRepository.Create, lines 276-279: the identifier and three clock readings
Stamp(log, id, t1, t2, t3) ==
    [log EXCEPT !.id = id, !.timestamp = t1, !.created_at = t2, !.updated_at = t3]

\* AuditRepository.Create: the stamped record, the error and the table after it
Create(st, log, id, t1, t2, t3, fault) ==
    LET stamped == Stamp(log, id, t1, t2, t3) IN
    IF fault THEN [err |-> "db", log |-> stamped, store |-> st]
    ELSE [err |-> "", log |-> stamped,
          store |-> [i \in DOMAIN st \cup {id} |->
                        IF i = id THEN ToRow(stamped) ELSE st[i]]]

\* AuditRepository.GetByID
GetByID(st, id, fault) ==
    IF fault THEN [err |-> "db", log |-> NoLog]
    ELSE IF id \notin DOMAIN st THEN [err |-> "not_found", log |-> NoLog]
    ELSE [err |-> "", log |-> FromRow(st[id])]

DeleteKeep(st, id, fault) ==
    IF fault THEN [err |-> "db", store |-> st]
    ELSE IF id \notin DOMAIN st THEN [err |-> "not_found", store |-> st]
    ELSE [err |-> "", store |-> st]

\* a DELETE whose RowsAffected is not looked at
DeleteQuiet(st, id, fault) ==
    IF fault THEN [err |-> "db", store |-> st]
    ELSE [err |-> "", store |-> [i \in DOMAIN st \ {id} |-> st[i]]]

\* AuditRepository.Delete
Delete(st, id, fault) ==
    IF fault THEN [err |-> "db", store |-> st]
    ELSE IF id \notin DOMAIN st THEN [err |-> "not_found", store |-> st]
    ELSE [err |-> "", store |-> [i \in DOMAIN st \ {id} |-> st[i]]]

UpdateRowAll(row, req, t) ==
    [row EXCEPT !.status = req.status, !.updated_at = t,
                !.data = Jsonb(req.data), !.meta = Marshal(req.meta)]

\* AuditRepository.UpdateStatus: the SET list applied to one row
UpdateRow(row, req, t) ==
    [row EXCEPT !.status = req.status,
                !.updated_at = t,
                !.data = IF req.data # NoData THEN Jsonb(req.data) ELSE @,
                !.meta = IF ~req.meta.isNil THEN Marshal(req.meta) ELSE @]

\* a SET list step: one more assignment, its argument, the next index
AddSet(q, col, val) ==
    [sets |-> Append(q.sets, [col |-> col, ph |-> q.argIndex]),
     args |-> Append(q.args, val),
     argIndex |-> q.argIndex + 1]

\* an UPDATE whose WHERE clause is always numbered $2
UpdateStatementFixed(id, req) ==
    LET q0 == [sets |-> <<[col |-> "status", ph |-> 1]>>, args |-> <<req.status>>,
               argIndex |-> 2]
        q1 == IF req.data # NoData THEN AddSet(q0, "data", req.data) ELSE q0
        q2 == IF ~req.meta.isNil THEN AddSet(q1, "meta", Marshal(req.meta)) ELSE q1
    IN  [sets |-> q2.sets, idPh |-> 2, args |-> Append(q2.args, id)]

\* AuditRepository.UpdateStatus, lines 521-549: the SET list, the placeholder of
\* the WHERE clause and the arguments (updated_at = NOW() takes no argument)
UpdateStatement(id, req) ==
    LET q0 == [sets |-> <<[col |-> "status", ph |-> 1]>>, args |-> <<req.status>>,
               argIndex |-> 2]
        q1 == IF req.data # NoData THEN AddSet(q0, "data", req.data) ELSE q0
        q2 == IF ~req.meta.isNil THEN AddSet(q1, "meta", Marshal(req.meta)) ELSE q1
    IN  [sets |-> q2.sets, idPh |-> q2.argIndex, args |-> Append(q2.args, id)]

\* an UPDATE turned into INSERT ... ON CONFLICT (id) DO UPDATE
UpdateStatusUpsert(st, id, req, t, fault) ==
    IF fault THEN [err |-> "db", store |-> st]
    ELSE [err |-> "",
          store |-> [i \in DOMAIN st \cup {id} |->
                        IF i \in DOMAIN st
                        THEN IF i = id THEN UpdateRow(st[i], req, t) ELSE st[i]
                        ELSE [id |-> id, tenant_id |-> "", user_id |-> "", resource |-> "",
                              event |-> EmptyStr, method |-> EmptyStr, ip |-> << >>,
                              status |-> req.status, data |-> Jsonb(req.data),
                              environment |-> "", meta |-> Marshal(req.meta),
                              timestamp |-> t, created_at |-> t, updated_at |-> t]]]

UpdateStatusForward(st, id, req, t, fault) ==
    IF fault THEN [err |-> "db", store |-> st]
    ELSE IF id \notin DOMAIN st \/ st[id].status \in {"completed", "archived", "closed"}
    THEN [err |-> "not_found", store |-> st]
    ELSE [err |-> "", store |-> [st EXCEPT ![id] = UpdateRow(st[id], req, t)]]

\* AuditRepository.UpdateStatus
UpdateStatus(st, id, req, t, fault) ==
    IF fault THEN [err |-> "db", store |-> st]
    ELSE IF id \notin DOMAIN st THEN [err |-> "not_found", store |-> st]
    ELSE [err |-> "", store |-> [st EXCEPT ![id] = UpdateRow(st[id], req, t)]]

(***************************************************************************)
(* Notification fan-out, as the create path sees it                        *)
(***************************************************************************)
Channels == {"email", "slack", "webhook"}

CriticalEvents == {<<"D","E","L","E","T","E">>,
                   <<"U","N","A","U","T","H","O","R","I","Z","E","D","_","A","C","C","E","S","S">>,
                   <<"S","E","C","U","R","I","T","Y","_","B","R","E","A","C","H">>}

\* NotificationService.shouldNotifyByEmail
shouldNotifyByEmail(log) == \E e \in CriticalEvents : Contains(ToUpper(log.event), e)

\* NotificationService.shouldNotifyBySlack
shouldNotifyBySlack(log) == log.environment = "production"

\* NotificationService.shouldNotifyByWebhook
shouldNotifyByWebhook(log) == TRUE

EligibleEnabled(c, log) ==
    {ch \in Channels : \/ ch = "email" /\ c.Email
                       \/ ch = "slack" /\ c.Slack
                       \/ ch = "webhook" /\ c.Webhook}

\* the channels SendNotification dispatches for a record
Eligible(c, log) ==
    {ch \in Channels :
        \/ ch = "email" /\ c.Email /\ shouldNotifyByEmail(log)
        \/ ch = "slack" /\ c.Slack /\ shouldNotifyBySlack(log)
        \/ ch = "webhook" /\ c.Webhook /\ shouldNotifyByWebhook(log)}

\* context.Background(): no request cancels it
Background == 0

SpawnFanoutJoined(fo, log) == Append(fo, [log |-> log, st |-> "returned", ctx |-> Background])

\* the goroutine handed the context of the request that created the record
SpawnFanoutRequest(fo, log) == Append(fo, [log |-> log, st |-> "spawned", ctx |-> log.id])

\* CreateAuditLog, lines 99-105: go func() { SendNotification(...) }()
SpawnFanout(fo, log) == Append(fo, [log |-> log, st |-> "spawned", ctx |-> Background])

FanoutAlways(fo, r) == SpawnFanout(fo, r.log)

\* CreateAuditLog, lines 85-105: the fan-out is reached only past the error return
FanoutAfterCreate(fo, r) == IF r.err # "" THEN fo ELSE SpawnFanout(fo, r.log)

StoreRolledBack(st, task, failed) ==
    IF failed # {} THEN [i \in DOMAIN st \ {task.log.id} |-> st[i]] ELSE st

\* the fan-out goroutine, lines 100-104: a failure is logged, the table is not touched
StoreAfterFanout(st, task, failed) == st

(***************************************************************************)
(* Calls in progress: the store statements of DeleteAuditLog and of         *)
(* AuditRepository.List, one step each, so that calls of different          *)
(* requests interleave                                                      *)
(***************************************************************************)
\* the request goroutines that run them
Workers == {"w1", "w2"}

IdleCall ==
    [op |-> "idle", pc |-> "idle", id |-> EmptyId, present |-> FALSE,
     filter |-> << >>, total |-> 0, data |-> << >>, has_more |-> FALSE, err |-> ""]

\* DeleteAuditLog is called; present: the row is in the table at that moment
BeginDelete(w, id) ==
    /\ inflight[w].pc \in {"idle", "returned"}
    /\ inflight' = [inflight EXCEPT ![w] = [IdleCall EXCEPT !.op = "delete", !.pc = "GetByID",
                                                      !.id = id,
                                                      !.present = (id \in DOMAIN store)]]
    /\ UNCHANGED <<cfg, store, nextId, now, last, fanout, persisted, spawned, sn, http,
                   cancelled>>

\* DeleteAuditLog, lines 168-171: the existence check
DeleteGetByID(w) ==
    /\ inflight[w].pc = "GetByID"
    /\ inflight' = IF GetByID(store, inflight[w].id, FALSE).err # ""
                THEN [inflight EXCEPT ![w].pc = "returned", ![w].err = "not_found"]
                ELSE [inflight EXCEPT ![w].pc = "Delete"]
    /\ UNCHANGED <<cfg, store, nextId, now, last, fanout, persisted, spawned, sn, http,
                   cancelled>>

\* DeleteAuditLog, lines 173-184: the DELETE statement and the return
DeleteDelete(w) ==
    /\ inflight[w].pc = "Delete"
    /\ LET d == Delete(store, inflight[w].id, FALSE) IN
       /\ store' = d.store
       /\ inflight' = [inflight EXCEPT ![w].pc = "returned",
                                 ![w].err = IF d.err = "" THEN "" ELSE "store"]
    /\ UNCHANGED <<cfg, nextId, now, last, fanout, persisted, spawned, sn, http, cancelled>>

(***************************************************************************)
(* Audit record service                                                    *)
(***************************************************************************)
\* a call refused before any store operation; detail is what the error text names
Reject(op, id, req, err, detail) ==
    [op |-> op, id |-> id, req |-> req, ok |-> FALSE, err |-> err,
     log |-> NoLog, calls |-> << >>, detail |-> detail]

\* a call that went to the store: calls lists the store operations it invoked
\* an identifier generator that hands out the same value again
NewIDRepeat(n) == 1

\* uuid.New(): a value that no earlier call returned
NewID(n) == n + 1

Answer(op, id, req, err, log, calls) ==
    [op |-> op, id |-> id, req |-> req, ok |-> (err = ""), err |-> err,
     log |-> log, calls |-> calls, detail |-> << >>]

\* AuditService.CreateAuditLog
CreateAuditLog(req, t1, t2, t3, fault) ==
    LET status == ResolveStatus(cfg, req.status) IN
    IF ValidateStruct(req) # {} THEN
        /\ last' = Reject("create", EmptyId, req, "validation", ValidateStruct(req))
        /\ UNCHANGED <<cfg, store, nextId, now, fanout, persisted, spawned>>
    ELSE IF ~validateIP(req.ip) THEN
        /\ last' = Reject("create", EmptyId, req, "invalid_ip", req.ip)
        /\ UNCHANGED <<cfg, store, nextId, now, fanout, persisted, spawned>>
    ELSE IF cfg.Enabled /\ ~IsValidStatus(cfg, status) THEN
        /\ last' = Reject("create", EmptyId, req, "invalid_status", <<status, cfg.StatusValues>>)
        /\ UNCHANGED <<cfg, store, nextId, now, fanout, persisted, spawned>>
    ELSE
        /\ nextId < MaxIds
        /\ LET r == Create(store, NewAuditLog(req, status), NewID(nextId), t1, t2, t3, fault) IN
           /\ store' = r.store
           /\ fanout' = FanoutAfterCreate(fanout, r)
           /\ persisted' = IF r.err = "" THEN persisted \cup {NewID(nextId)} ELSE persisted
           /\ spawned' = spawned \o [k \in 1..(Len(fanout') - Len(fanout)) |-> NewID(nextId)]
           /\ last' = Answer("create", EmptyId, req, IF r.err = "" THEN "" ELSE "store",
                             IF r.err = "" THEN r.log ELSE NoLog, <<"Create">>)
        /\ nextId' = nextId + 1
        /\ now' = t3
        /\ UNCHANGED cfg

\* AuditService.GetAuditLogByID
GetAuditLogByID(id, fault) ==
    /\ IF id = EmptyId THEN last' = Reject("get", id, NoLog, "id_required", << >>)
       ELSE LET r == GetByID(store, id, fault) IN
            last' = Answer("get", id, NoLog, r.err, r.log, <<"GetByID">>)
    /\ UNCHANGED <<cfg, store, nextId, now, fanout, persisted, spawned>>

\* AuditService.DeleteAuditLog
DeleteAuditLog(id, fault1, fault2) ==
    IF id = EmptyId THEN
        /\ last' = Reject("delete", id, NoLog, "id_required", << >>)
        /\ UNCHANGED <<cfg, store, nextId, now, fanout, persisted, spawned>>
    ELSE LET g == GetByID(store, id, fault1) IN
        IF g.err # "" THEN
            /\ last' = Answer("delete", id, NoLog, "not_found", NoLog, <<"GetByID">>)
            /\ UNCHANGED <<cfg, store, nextId, now, fanout, persisted, spawned>>
        ELSE LET d == Delete(store, id, fault2) IN
            /\ store' = d.store
            /\ last' = Answer("delete", id, NoLog, IF d.err = "" THEN "" ELSE "store",
                              NoLog, <<"GetByID", "Delete">>)
            /\ UNCHANGED <<cfg, nextId, now, fanout, persisted, spawned>>

\* AuditService.UpdateAuditLogStatus
UpdateAuditLogStatus(id, req, t, fault) ==
    IF id = EmptyId THEN
        /\ last' = Reject("update", id, req, "id_required", << >>)
        /\ UNCHANGED <<cfg, store, nextId, now, fanout, persisted, spawned>>
    ELSE IF req.status = "" THEN
        /\ last' = Reject("update", id, req, "status_required", << >>)
        /\ UNCHANGED <<cfg, store, nextId, now, fanout, persisted, spawned>>
    ELSE IF cfg.Enabled /\ ~IsValidStatus(cfg, req.status) THEN
        /\ last' = Reject("update", id, req, "invalid_status", <<req.status, cfg.StatusValues>>)
        /\ UNCHANGED <<cfg, store, nextId, now, fanout, persisted, spawned>>
    ELSE LET u == UpdateStatus(store, id, req, t, fault) IN
        /\ store' = u.store
        /\ last' = Answer("update", id, req, u.err, NoLog, <<"UpdateStatus">>)
        /\ now' = IF u.err = "" THEN t ELSE now
        /\ UNCHANGED <<cfg, nextId, fanout, persisted, spawned>>

(***************************************************************************)
(* The fan-out goroutine                                                   *)
(***************************************************************************)
RemoveAt(s, i) == [k \in 1..(Len(s) - 1) |-> IF k < i THEN s[k] ELSE s[k + 1]]

\* the senders that build their request with http.NewRequestWithContext: a
\* Send under a context that is done returns its error
CtxSenders == {"slack", "webhook"}

\* the request's context is done: the handler has returned, the client has
\* gone or the deadline has passed
CancelRequest(k) ==
    /\ k \in persisted \ cancelled
    /\ cancelled' = cancelled \cup {k}
    /\ UNCHANGED <<cfg, store, nextId, now, last, fanout, persisted, spawned, sn, http, inflight>>

\* the goroutine is scheduled and enters SendNotification
FanoutStart(i) ==
    /\ fanout[i].st = "spawned"
    /\ fanout' = [fanout EXCEPT ![i].st = "running"]
    /\ UNCHANGED <<cfg, store, nextId, now, last, persisted, spawned>>

\* SendNotification returns to the goroutine, which logs a non-nil error and ends
FanoutFinish(i, failed) ==
    /\ fanout[i].st = "running"
    /\ failed \subseteq Eligible(cfg, fanout[i].log)
    /\ fanout[i].ctx \in cancelled =>
           Eligible(cfg, fanout[i].log) \cap CtxSenders \subseteq failed
    /\ fanout' = RemoveAt(fanout, i)
    /\ store' = StoreAfterFanout(store, fanout[i], failed)
    /\ last' = [op |-> "fanout", id |-> fanout[i].log.id, req |-> NoLog,
                ok |-> (failed = {}), err |-> IF failed = {} THEN "" ELSE "notification",
                log |-> fanout[i].log, calls |-> << >>, detail |-> << >>,
                failed |-> failed, logged |-> (failed # {})]
    /\ UNCHANGED <<cfg, nextId, now, persisted, spawned>>

(***************************************************************************)
(* NotificationService.SendNotification: the caller, one goroutine per      *)
(* dispatched channel, the goroutine that closes the errors channel         *)
(***************************************************************************)
\* the order of the three dispatch blocks, lines 53-83
ChannelOrder == <<"email", "slack", "webhook">>

\* whom a channel's send function addresses: Email.To, the Slack channel, Webhook.URLs
Recipients(c, ch) ==
    IF ch = "email" THEN c.To
    ELSE IF ch = "slack" THEN <<"#audit-alerts">>
    ELSE c.URLs

\* no call in progress.  task: "none" (not dispatched), "running", "done";
\* sent: the Send calls each channel has made, in order, with their outcome;
\* errors: the buffered channel; collected: notificationErrors
IdleSend ==
    [pc |-> "idle", log |-> NoLog, at |-> 1,
     task |-> [ch \in Channels |-> "none"],
     sent |-> [ch \in Channels |-> << >>],
     errors |-> << >>, closed |-> FALSE, collected |-> << >>, result |-> "none"]

\* SendNotification, lines 45-50: return nil when no channel would fire
SendNotification(log) ==
    /\ sn.pc \in {"idle", "returned"}
    /\ sn' = IF Eligible(cfg, log) = {}
             THEN [IdleSend EXCEPT !.pc = "returned", !.log = log, !.result = "ok"]
             ELSE [IdleSend EXCEPT !.pc = "dispatch", !.log = log]
    /\ UNCHANGED <<cfg, store, nextId, now, last, fanout, persisted, spawned, http, cancelled, inflight>>

\* lines 53-83, one block per step: wg.Add(1) and the go statement of a channel
\* that is enabled and whose predicate holds; after the third block the closing
\* goroutine is started and the caller ranges over errors
Dispatch ==
    /\ sn.pc = "dispatch"
    /\ LET ch == ChannelOrder[sn.at] IN
       sn' = [sn EXCEPT !.task[ch] = IF ch \in Eligible(cfg, sn.log) THEN "running" ELSE "none",
                        !.at = sn.at + 1,
                        !.pc = IF sn.at = Len(ChannelOrder) THEN "collect" ELSE "dispatch"]
    /\ UNCHANGED <<cfg, store, nextId, now, last, fanout, persisted, spawned, http, cancelled, inflight>>

ChannelReadyInTurn(s, ch) ==
    /\ s.task[ch] = "running"
    /\ \A k \in 1..Len(ChannelOrder) :
          (ChannelOrder[k] = ch) =>
              \A j \in 1..(k - 1) : s.task[ChannelOrder[j]] # "running"

\* a channel goroutine can take its next step whatever the others are doing
ChannelReady(s, ch) == s.task[ch] = "running"

\* sendEmailNotification / sendWebhookNotification, the recipient loop: the
\* function returns after the n-th Send when that Send failed or was the last
LoopEnds(rcpts, n, ok) == ~ok \/ n >= Len(rcpts)

ErrorsRoomOne(s) == Len(s.errors) < 1

\* line 51, make(chan error, 3): a send on errors goes through while fewer
\* than three errors wait in the buffer
ErrorsRoom(s) == Len(s.errors) < 3

\* one Send of a channel goroutine and what follows it up to the next Send:
\* a failed Send puts the channel's error on errors and the goroutine is done
ChannelSend(ch, ok) ==
    /\ ChannelReady(sn, ch)
    /\ ok \/ ErrorsRoom(sn)
    /\ LET rcpts == Recipients(cfg, ch)
           n == Len(sn.sent[ch]) + 1
       IN  /\ n <= Len(rcpts)
           /\ sn' = [sn EXCEPT
                  !.sent[ch] = Append(@, [to |-> rcpts[n], ok |-> ok]),
                  !.errors = IF ok THEN @ ELSE Append(@, [ch |-> ch, to |-> rcpts[n]]),
                  !.task[ch] = IF LoopEnds(rcpts, n, ok) THEN "done" ELSE "running"]
    /\ UNCHANGED <<cfg, store, nextId, now, last, fanout, persisted, spawned, http, cancelled, inflight>>

AnyDone(s) == \E ch \in Channels : s.task[ch] = "done"

\* wg.Wait() returns: every dispatched goroutine has called wg.Done()
AllDone(s) == \A ch \in Channels : s.task[ch] # "running"

\* lines 86-89: the closing goroutine
CloseErrors ==
    /\ sn.pc = "collect"
    /\ ~sn.closed
    /\ AllDone(sn)
    /\ sn' = [sn EXCEPT !.closed = TRUE]
    /\ UNCHANGED <<cfg, store, nextId, now, last, fanout, persisted, spawned, http, cancelled, inflight>>

\* lines 92-96: the caller receives one error from the channel
Collect ==
    /\ sn.pc = "collect"
    /\ sn.errors # << >>
    /\ sn' = [sn EXCEPT !.collected = Append(@, Head(sn.errors)),
                        !.errors = Tail(@)]
    /\ UNCHANGED <<cfg, store, nextId, now, last, fanout, persisted, spawned, http, cancelled, inflight>>

\* lines 92-102: the range ends on the closed, drained channel and the call returns
Return ==
    /\ sn.pc = "collect"
    /\ sn.errors = << >>
    /\ sn.closed
    /\ sn' = [sn EXCEPT !.pc = "returned",
                        !.result = IF sn.collected = << >> THEN "ok" ELSE "error"]
    /\ UNCHANGED <<cfg, store, nextId, now, last, fanout, persisted, spawned, http, cancelled, inflight>>

(***************************************************************************)
(* Listing                                                                 *)
(***************************************************************************)
\* Go's int, scaled down to 16 bits: the sum in List wraps around
MaxInt == 2^15 - 1

AddInt(a, b) == ((a + b + MaxInt + 1) % (2 * (MaxInt + 1))) - (MaxInt + 1)

NoFilter ==
    [tenant_id |-> "", user_id |-> "", resource |-> "", event |-> EmptyStr,
     method |-> EmptyStr, status |-> "", environment |-> "",
     start_date |-> ZeroTime, end_date |-> ZeroTime, limit |-> 0, offset |-> 0]

\* the optional filter fields in the order buildWhereClause visits them
FilterFields(f) ==
    << [col |-> "tenant_id", op |-> "=", set |-> f.tenant_id # "", val |-> f.tenant_id],
       [col |-> "user_id", op |-> "=", set |-> f.user_id # "", val |-> f.user_id],
       [col |-> "resource", op |-> "=", set |-> f.resource # "", val |-> f.resource],
       [col |-> "event", op |-> "=", set |-> f.event # EmptyStr, val |-> f.event],
       [col |-> "method", op |-> "=", set |-> f.method # EmptyStr, val |-> f.method],
       [col |-> "status", op |-> "=", set |-> f.status # "", val |-> f.status],
       [col |-> "environment", op |-> "=", set |-> f.environment # "", val |-> f.environment],
       [col |-> "timestamp", op |-> ">=", set |-> f.start_date # ZeroTime, val |-> f.start_date],
       [col |-> "timestamp", op |-> "<=", set |-> f.end_date # ZeroTime, val |-> f.end_date] >>

IsSet(c) == c.set

buildWhereClauseFirst(f) ==
    LET all == SelectSeq(FilterFields(f), IsSet)
        sel == IF all = << >> THEN all ELSE <<all[1]>> IN
    [conditions |-> [i \in 1..Len(sel) |-> [col |-> sel[i].col, op |-> sel[i].op, ph |-> i]],
     args |-> [i \in 1..Len(sel) |-> sel[i].val]]

\* AuditRepository.buildWhereClause: the conditions, each with its placeholder
\* number, and the arguments in placeholder order
buildWhereClause(f) ==
    LET sel == SelectSeq(FilterFields(f), IsSet) IN
    [conditions |-> [i \in 1..Len(sel) |-> [col |-> sel[i].col, op |-> sel[i].op, ph |-> i]],
     args |-> [i \in 1..Len(sel) |-> sel[i].val]]

\* one condition of the WHERE clause on one row
HoldsOn(row, cond, args) ==
    IF cond.op = "=" THEN row[cond.col] = args[cond.ph]
    ELSE IF cond.op = ">=" THEN row[cond.col] >= args[cond.ph]
    ELSE row[cond.col] <= args[cond.ph]

\* the rows the WHERE clause selects
Matching(st, w) ==
    {i \in DOMAIN st :
        \A k \in 1..Len(w.conditions) : HoldsOn(st[i], w.conditions[k], w.args)}

\* ORDER BY timestamp DESC: every order of the rows that respects it
Orders(st, ids) ==
    {o \in [1..Cardinality(ids) -> ids] :
        /\ \A i, j \in 1..Cardinality(ids) : i # j => o[i] # o[j]
        /\ \A i, j \in 1..Cardinality(ids) : i < j => st[o[i]].timestamp >= st[o[j]].timestamp}

Min(a, b) == IF a < b THEN a ELSE b

ListFromStart(st, f, o, fault) ==
    LET total == Cardinality(Matching(st, buildWhereClause(f)))
    IN  IF fault THEN [err |-> "db", result |-> NoLog]
        ELSE [err |-> "",
              result |-> [data |-> [k \in 1..Min(f.limit, total) |-> FromRow(st[o[k]])],
                          total |-> total, limit |-> f.limit, offset |-> f.offset,
                          has_more |-> (AddInt(f.offset, f.limit) < total)]]

\* AuditRepository.List
List(st, f, o, fault) ==
    LET w == buildWhereClause(f)
        total == Cardinality(Matching(st, w))
        upto == Min(f.offset + f.limit, total)
    IN  IF fault THEN [err |-> "db", result |-> NoLog]
        ELSE [err |-> "",
              result |-> [data |-> [k \in 1..(IF upto > f.offset THEN upto - f.offset ELSE 0) |->
                                        FromRow(st[o[f.offset + k]])],
                          total |-> total, limit |-> f.limit, offset |-> f.offset,
                          has_more |-> (AddInt(f.offset, f.limit) < total)]]

\* AuditRepository.List, lines 372-381: the page statement, its WHERE clause
\* followed by LIMIT $n+1 OFFSET $n+2 and the two values appended to the
\* arguments
PageStatement(f) ==
    LET w == buildWhereClause(f) IN
    [conditions |-> w.conditions,
     limitPh |-> Len(w.args) + 1,
     offsetPh |-> Len(w.args) + 2,
     args |-> w.args \o <<f.limit, f.offset>>]

\* AuditRepository.List, lines 364-370: SELECT COUNT(*)
CountQuery(st, f) == Cardinality(Matching(st, buildWhereClause(f)))

\* AuditRepository.List, lines 372-420: the page statement and its scan
PageQuery(st, f, o) ==
    LET q == PageStatement(f)
        limit == q.args[q.limitPh]
        offset == q.args[q.offsetPh]
        upto == Min(offset + limit, Cardinality(Matching(st, q)))
    IN  [k \in 1..(IF upto > offset THEN upto - offset ELSE 0) |->
            FromRow(st[o[offset + k]])]

\* AuditRepository.List is called
BeginList(w, f) ==
    /\ inflight[w].pc \in {"idle", "returned"}
    /\ inflight' = [inflight EXCEPT ![w] = [IdleCall EXCEPT !.op = "list", !.pc = "count",
                                                      !.filter = f]]
    /\ UNCHANGED <<cfg, store, nextId, now, last, fanout, persisted, spawned, sn, http,
                   cancelled>>

\* the count statement
ListCount(w) ==
    /\ inflight[w].pc = "count"
    /\ inflight' = [inflight EXCEPT ![w].pc = "page",
                              ![w].total = CountQuery(store, inflight[w].filter)]
    /\ UNCHANGED <<cfg, store, nextId, now, last, fanout, persisted, spawned, sn, http,
                   cancelled>>

\* the page statement, on the table as it is by then, and the return
ListPage(w) ==
    /\ inflight[w].pc = "page"
    /\ LET f == inflight[w].filter IN
       \E o \in Orders(store, Matching(store, buildWhereClause(f))) :
           inflight' = [inflight EXCEPT ![w].pc = "returned",
                                  ![w].data = PageQuery(store, f, o),
                                  ![w].has_more = (AddInt(f.offset, f.limit) < inflight[w].total)]
    /\ UNCHANGED <<cfg, store, nextId, now, last, fanout, persisted, spawned, sn, http,
                   cancelled>>

PaginateKeep(f) == f

\* ListAuditLogs, lines 128-136: default and clamp the pagination
Paginate(f) ==
    LET l1 == IF f.limit <= 0 THEN 50 ELSE f.limit
        l2 == IF l1 > 1000 THEN 1000 ELSE l1
        o1 == IF f.offset < 0 THEN 0 ELSE f.offset
    IN  [f EXCEPT !.limit = l2, !.offset = o1]

\* AuditService.ListAuditLogs: req is the filter as the caller gave it, detail the
\* filter handed to the store
ListAuditLogs(filter, fault) ==
    LET f == Paginate(filter) IN
    /\ IF f.start_date # ZeroTime /\ f.end_date # ZeroTime /\ f.start_date > f.end_date
       THEN last' = Reject("list", EmptyId, filter, "date_range", << >>)
       ELSE \E o \in Orders(store, Matching(store, buildWhereClause(f))) :
              LET r == List(store, f, o, fault) IN
              last' = [Answer("list", EmptyId, filter, r.err, r.result, <<"List">>)
                          EXCEPT !.detail = f]
    /\ UNCHANGED <<cfg, store, nextId, now, fanout, persisted, spawned>>

\* AuditService.GetAuditLogStats: two counts through List, the filters not
\* passing through ListAuditLogs
GetAuditLogStats(tenantID, startDate, endDate, fault) ==
    LET filter == [NoFilter EXCEPT !.tenant_id = tenantID, !.start_date = startDate,
                                   !.end_date = endDate, !.limit = 1, !.offset = 0]
        errorFilter == [filter EXCEPT !.status = cfg.ErrorStatus]
        o1 == CHOOSE o \in Orders(store, Matching(store, buildWhereClause(filter))) : TRUE
        o2 == CHOOSE o \in Orders(store, Matching(store, buildWhereClause(errorFilter))) : TRUE
        result == List(store, filter, o1, fault)
        errorResult == List(store, errorFilter, o2, fault)
    IN  /\ last' = IF result.err # "" \/ errorResult.err # ""
                   THEN Answer("stats", EmptyId, filter, "db", NoLog, <<"List">>)
                   ELSE Answer("stats", EmptyId, filter, "",
                               [total_logs |-> result.result.total,
                                error_count |-> errorResult.result.total,
                                tenant_id |-> tenantID,
                                start_date |-> startDate, end_date |-> endDate],
                               <<"List", "List">>)
        /\ UNCHANGED <<cfg, store, nextId, now, fanout, persisted, spawned>>

(***************************************************************************)
(* HTTP surface: the router of cmd/api/main.go, AuthMiddleware.OptionalAuth *)
(* and the handlers                                                        *)
(***************************************************************************)
AuditRoutes == {"create", "list", "get", "update", "delete", "stats"}

HealthRoutes == {"health", "ready", "live"}

HMACAlgs == {"HS256", "HS384", "HS512"}

\* an Authorization header: scheme is what precedes the token ("" when the
\* header is absent); the token parses or not, names its algorithm, was signed
\* with some key, and is expired or not
NoBearer == [scheme |-> "", parses |-> FALSE, alg |-> "", key |-> "", expired |-> FALSE]

GoodToken ==
    [scheme |-> "Bearer", parses |-> TRUE, alg |-> "HS256",
     key |-> "your-secret-key", expired |-> FALSE]

Bearers ==
    {NoBearer, GoodToken,
     [GoodToken EXCEPT !.key = "another-key"],
     [GoodToken EXCEPT !.alg = "none", !.key = ""],
     [GoodToken EXCEPT !.alg = "RS256"],
     [GoodToken EXCEPT !.expired = TRUE],
     [GoodToken EXCEPT !.parses = FALSE],
     [GoodToken EXCEPT !.scheme = "Basic"]}

\* jwt.Parse with the key function of OptionalAuth: err == nil && token.Valid
JwtValid(t, secret) ==
    /\ t.parses
    /\ t.alg \in HMACAlgs
    /\ t.key = secret
    /\ ~t.expired

\* the credentials of a request: the Authorization header, the X-API-Key header
\* and the api_key query parameter
Credentials ==
    {[bearer |-> b, header |-> "", query |-> ""] : b \in Bearers}
    \cup {[bearer |-> NoBearer, header |-> h, query |-> q] :
             h \in {"", "key-2", "key-9"}, q \in {"", "key-1", "key-9"}}
    \cup {[bearer |-> [GoodToken EXCEPT !.key = "another-key"], header |-> "key-1", query |-> ""],
          [bearer |-> [GoodToken EXCEPT !.scheme = "Basic"], header |-> "key-9", query |-> ""]}

OptionalAuthOpen(c, cr) == "anonymous"

\* AuthMiddleware.OptionalAuth: the auth_type it sets, "" when it answers 401
OptionalAuth(c, cr) ==
    LET apiKey == IF cr.header = "" THEN cr.query ELSE cr.header IN
    IF cr.bearer.scheme = "Bearer" /\ JwtValid(cr.bearer, c.JWTSecret) THEN "jwt"
    ELSE IF apiKey # "" /\ \E i \in 1..Len(c.APIKeys) : c.APIKeys[i] = apiKey THEN "api_key"
    ELSE ""

\* ran: a route handler ran; called: it called the audit service
NoExchange ==
    [route |-> "none", creds |-> NoBearer, ran |-> FALSE, called |-> FALSE, status |-> 0]

\* the /api/v1 group: OptionalAuth, then the handler
Exchange(route, cr, status) ==
    [route |-> route, creds |-> cr, ran |-> TRUE, called |-> TRUE, status |-> status]

\* OptionalAuth answers 401 and aborts the chain
Unauthorized(route, cr) ==
    /\ http' = [route |-> route, creds |-> cr, ran |-> FALSE, called |-> FALSE, status |-> 401]
    /\ UNCHANGED <<cfg, store, nextId, now, last, fanout, persisted, spawned, sn, cancelled, inflight>>

\* a handler that answers before it calls the service
Refused(route, cr, status) ==
    /\ http' = [Exchange(route, cr, status) EXCEPT !.called = FALSE]
    /\ UNCHANGED <<cfg, store, nextId, now, last, fanout, persisted, spawned, sn, cancelled, inflight>>

\* c.ClientIP(), which CreateAuditLog's handler fills in for an absent ip
ClientIP == <<10, 0, 0, 7>>

\* AuditHandler.CreateAuditLog; malformed: the body is not the JSON of a request
HandleCreateAuditLog(cr, malformed, body, t1, t2, t3, fault) ==
    IF OptionalAuth(cfg, cr) = "" THEN Unauthorized("create", cr)
    ELSE IF malformed THEN Refused("create", cr, 400)
    ELSE /\ CreateAuditLog(IF body.ip = IP_Empty THEN [body EXCEPT !.ip = ClientIP] ELSE body,
                           t1, t2, t3, fault)
         /\ http' = Exchange("create", cr, IF last'.ok THEN 201 ELSE 500)
         /\ UNCHANGED <<sn, cancelled, inflight>>

\* AuditHandler.GetAuditLog
HandleGetAuditLog(cr, id, fault) ==
    IF OptionalAuth(cfg, cr) = "" THEN Unauthorized("get", cr)
    ELSE IF id = EmptyId THEN Refused("get", cr, 400)
    ELSE /\ GetAuditLogByID(id, fault)
         /\ http' = Exchange("get", cr, IF last'.ok THEN 200 ELSE 404)
         /\ UNCHANGED <<sn, cancelled, inflight>>

\* AuditHandler.ListAuditLogs; badQuery: a date, the limit or the offset does not parse
HandleListAuditLogs(cr, badQuery, hasLimit, filter, fault) ==
    IF OptionalAuth(cfg, cr) = "" THEN Unauthorized("list", cr)
    ELSE IF badQuery THEN Refused("list", cr, 400)
    ELSE /\ ListAuditLogs(IF hasLimit THEN filter ELSE [filter EXCEPT !.limit = 50], fault)
         /\ http' = Exchange("list", cr, IF last'.ok THEN 200 ELSE 500)
         /\ UNCHANGED <<sn, cancelled, inflight>>

\* AuditHandler.DeleteAuditLog
HandleDeleteAuditLog(cr, id, fault1, fault2) ==
    IF OptionalAuth(cfg, cr) = "" THEN Unauthorized("delete", cr)
    ELSE IF id = EmptyId THEN Refused("delete", cr, 400)
    ELSE /\ DeleteAuditLog(id, fault1, fault2)
         /\ http' = Exchange("delete", cr, IF last'.ok THEN 204 ELSE 404)
         /\ UNCHANGED <<sn, cancelled, inflight>>

\* AuditHandler.UpdateAuditLogStatus: the status follows the text of the error
HandleUpdateAuditLogStatus(cr, id, malformed, req, t, fault) ==
    IF OptionalAuth(cfg, cr) = "" THEN Unauthorized("update", cr)
    ELSE IF id = EmptyId \/ malformed THEN Refused("update", cr, 400)
    ELSE /\ UpdateAuditLogStatus(id, req, t, fault)
         /\ http' = Exchange("update", cr,
                       IF last'.ok THEN 200
                       ELSE IF last'.err = "not_found" THEN 404
                       ELSE IF last'.err = "invalid_status" THEN 400
                       ELSE 500)
         /\ UNCHANGED <<sn, cancelled, inflight>>

\* AuditHandler.GetAuditLogStats; badQuery: a date is missing or does not parse
HandleGetAuditLogStats(cr, tenantID, badQuery, startDate, endDate, fault) ==
    IF OptionalAuth(cfg, cr) = "" THEN Unauthorized("stats", cr)
    ELSE IF tenantID = "" \/ badQuery THEN Refused("stats", cr, 400)
    ELSE /\ GetAuditLogStats(tenantID, startDate, endDate, fault)
         /\ http' = Exchange("stats", cr, IF last'.ok THEN 200 ELSE 500)
         /\ UNCHANGED <<sn, cancelled, inflight>>

\* HealthHandler: registered on the router itself, before the /api/v1 group;
\* dbDown: the database ping fails
HandleHealth(route, cr, dbDown) ==
    /\ route \in HealthRoutes
    /\ http' = [Exchange(route, cr, IF dbDown /\ route # "live" THEN 503 ELSE 200)
                   EXCEPT !.called = FALSE]
    /\ UNCHANGED <<cfg, store, nextId, now, last, fanout, persisted, spawned, sn, cancelled, inflight>>

\* the CORS middleware: an OPTIONS request is answered 204 before any route
Preflight(cr) ==
    /\ http' = [route |-> "options", creds |-> cr, ran |-> FALSE, called |-> FALSE,
                status |-> 204]
    /\ UNCHANGED <<cfg, store, nextId, now, last, fanout, persisted, spawned, sn, cancelled, inflight>>

(***************************************************************************)
(* Inputs                                                                  *)
(***************************************************************************)
BaseReq ==
    [tenant_id |-> "tenant-123", user_id |-> "user-456", resource |-> "users",
     event |-> E_USER_CREATED, method |-> M_POST, ip |-> IP_OK, status |-> "",
     data |-> NoData, environment |-> "production", meta |-> NilMeta]

CreateReqs ==
    {BaseReq}
    \cup {[BaseReq EXCEPT !.method = m] : m \in {M_post, M_Get, M_FETCH, EmptyStr}}
    \cup {[BaseReq EXCEPT !.ip = a] : a \in {IP_NotAnIp, IP_Range, IP_Empty}}
    \cup {[BaseReq EXCEPT !.status = s] : s \in {"failed", "closed", "bogus"}}
    \cup {[BaseReq EXCEPT !.tenant_id = ""], [BaseReq EXCEPT !.environment = "qa"]}
    \cup {[BaseReq EXCEPT !.event = E_user_deleted, !.environment = "development",
                          !.data = Data1, !.meta = Meta1]}

NotifiedReqs ==
    {BaseReq,
     [BaseReq EXCEPT !.event = E_user_deleted],
     [BaseReq EXCEPT !.ip = IP_NotAnIp],
     [BaseReq EXCEPT !.method = M_FETCH],
     [BaseReq EXCEPT !.status = "bogus"]}

ValidReqs == {[BaseReq EXCEPT !.data = Data1, !.meta = Meta1]}

StoredReqs ==
    ValidReqs \cup {
     [BaseReq EXCEPT !.ip = IP_NotAnIp],
     [BaseReq EXCEPT !.tenant_id = ""],
     [BaseReq EXCEPT !.status = "bogus"]}

StatusReqs ==
    {[status |-> s, data |-> NoData, meta |-> NilMeta] : s \in {"", "completed", "bogus"}}

UpdateReqs ==
    {[status |-> "failed", data |-> NoData, meta |-> NilMeta],
     [status |-> "failed", data |-> Data2, meta |-> NilMeta],
     [status |-> "failed", data |-> NoData, meta |-> Meta2]}

Filters ==
    {NoFilter,
     [NoFilter EXCEPT !.status = "completed", !.limit = 1],
     [NoFilter EXCEPT !.start_date = 2, !.end_date = 1]}

\* the records the list filters tell apart
ListedReqs ==
    {BaseReq,
     [BaseReq EXCEPT !.tenant_id = "tenant-999"],
     [BaseReq EXCEPT !.user_id = "user-2", !.resource = "orders", !.status = "failed"],
     [BaseReq EXCEPT !.event = E_user_deleted, !.method = M_GET,
                     !.environment = "development"]}

FilterColumns ==
    {"tenant_id", "user_id", "resource", "event", "method", "status", "environment",
     "start_date"}

\* the filter that sets the columns of S, and the end bound when it is not zero
FilterOn(S, end) ==
    [tenant_id |-> IF "tenant_id" \in S THEN "tenant-123" ELSE "",
     user_id |-> IF "user_id" \in S THEN "user-456" ELSE "",
     resource |-> IF "resource" \in S THEN "users" ELSE "",
     event |-> IF "event" \in S THEN E_USER_CREATED ELSE EmptyStr,
     method |-> IF "method" \in S THEN M_POST ELSE EmptyStr,
     status |-> IF "status" \in S THEN "pending" ELSE "",
     environment |-> IF "environment" \in S THEN "production" ELSE "",
     start_date |-> IF "start_date" \in S THEN 2 ELSE ZeroTime,
     end_date |-> end, limit |-> 0, offset |-> 0]

\* every subset of the filter fields, and two of them again on a page of one
FieldFilters ==
    {FilterOn(S, end) : S \in SUBSET FilterColumns, end \in {ZeroTime, 2}}
    \cup {FilterOn(S, 1) : S \in {{}, {"tenant_id"}, {"start_date"}}}
    \cup {[FilterOn(S, ZeroTime) EXCEPT !.limit = 1, !.offset = 1] :
              S \in {{}, {"tenant_id"}}}

\* the limits and offsets on either side of every clamp, up to the largest int
PageFilters ==
    {[NoFilter EXCEPT !.limit = l, !.offset = o] :
        l \in {-1, 0, 1, 50, 1000, 1001}, o \in {-1, 0, 1, MaxInt - 1, MaxInt}}

E_USER_DELETED == <<"U","S","E","R","_","D","E","L","E","T","E","D">>

E_USER_VIEWED == <<"U","S","E","R","_","V","I","E","W","E","D">>

E_Security_Breach ==
    <<"S","e","c","u","r","i","t","y","_","B","r","e","a","c","h">>

\* the records SendNotification tells apart
NotifiedLogs ==
    {Stamp(NewAuditLog(req, "pending"), 1, 1, 1, 1) :
        req \in {[BaseReq EXCEPT !.event = E_USER_DELETED],
                 [BaseReq EXCEPT !.event = E_USER_VIEWED, !.environment = "development"],
                 [BaseReq EXCEPT !.event = E_Security_Breach, !.environment = "staging"],
                 BaseReq}}

\* every combination of the three enabled switches
NotificationConfigs ==
    {[DefaultConfig EXCEPT !.Email = e, !.Slack = k, !.Webhook = w] :
        e \in BOOLEAN, k \in BOOLEAN, w \in BOOLEAN}

Ids == 0..MaxIds

Times == 1..MaxClock

(***************************************************************************)
(* Specification                                                           *)
(***************************************************************************)
NoResp ==
    [op |-> "none", id |-> EmptyId, req |-> NoLog, ok |-> TRUE, err |-> "",
     log |-> NoLog, calls |-> << >>, detail |-> << >>]

InitWith(configs) ==
    /\ cfg \in configs
    /\ store = [i \in {} |-> NoLog]
    /\ nextId = 0
    /\ now = 1
    /\ last = NoResp
    /\ fanout = << >>
    /\ persisted = {}
    /\ spawned = << >>
    /\ sn = IdleSend
    /\ http = NoExchange
    /\ cancelled = {}
    /\ inflight = [w \in Workers |-> IdleCall]

Init == InitWith(AuditConfigs)

InitNotified == InitWith(Configs)

\* creates with every request of CreateReqs and every run of the clock
DoCreate ==
    /\ \E req \in CreateReqs, t1, t2, t3 \in Times :
           /\ now <= t1 /\ t1 <= t2 /\ t2 <= t3
           /\ CreateAuditLog(req, t1, t2, t3, FALSE)
    /\ UNCHANGED <<sn, http, cancelled, inflight>>

\* creates of the requests the fan-out tells apart
DoCreateNotified ==
    /\ \E req \in NotifiedReqs, t \in Times, fault \in BOOLEAN :
           /\ t = now
           /\ CreateAuditLog(req, t, t, t, fault)
    /\ UNCHANGED <<sn, http, cancelled, inflight>>

\* creates of the requests the stored rows differ by
DoCreateStored ==
    /\ \E req \in StoredReqs, t \in Times, fault \in BOOLEAN :
           /\ t = now
           /\ CreateAuditLog(req, t, t, t, fault)
    /\ UNCHANGED <<sn, http, cancelled, inflight>>

\* creates of one valid request
DoCreateValid ==
    /\ \E req \in ValidReqs, t \in Times :
           /\ t = now
           /\ CreateAuditLog(req, t, t, t, FALSE)
    /\ UNCHANGED <<sn, http, cancelled, inflight>>

DoGet ==
    /\ \E id \in Ids : GetAuditLogByID(id, FALSE)
    /\ UNCHANGED <<sn, http, cancelled, inflight>>

DoList ==
    /\ \E f \in Filters : ListAuditLogs(f, FALSE)
    /\ UNCHANGED <<sn, http, cancelled, inflight>>

DoDelete ==
    /\ \E id \in Ids, fault \in BOOLEAN : DeleteAuditLog(id, FALSE, fault)
    /\ UNCHANGED <<sn, http, cancelled, inflight>>

\* status-only updates
DoUpdate ==
    /\ \E id \in Ids, req \in StatusReqs, t \in Times :
           /\ t = now
           /\ UpdateAuditLogStatus(id, req, t, FALSE)
    /\ UNCHANGED <<sn, http, cancelled, inflight>>

\* updates that carry data, metadata, both or neither
DoUpdateFields ==
    /\ \E id \in Ids, req \in UpdateReqs, t \in Times :
           /\ now <= t
           /\ UpdateAuditLogStatus(id, req, t, FALSE)
    /\ UNCHANGED <<sn, http, cancelled, inflight>>

DoFanoutStart ==
    /\ \E i \in DOMAIN fanout : FanoutStart(i)
    /\ UNCHANGED <<sn, http, cancelled, inflight>>

DoFanoutFinish ==
    /\ \E i \in DOMAIN fanout, failed \in SUBSET Channels : FanoutFinish(i, failed)
    /\ UNCHANGED <<sn, http, cancelled, inflight>>

\* the record service over the store
Next ==
    \/ DoCreateStored
    \/ DoGet
    \/ DoList
    \/ DoDelete
    \/ DoUpdate

Spec == Init /\ [][Next]_vars

\* record creation and the notification goroutines it leaves behind
NextCreate ==
    \/ DoCreateNotified
    \/ DoFanoutStart
    \/ DoFanoutFinish

SpecCreate == InitNotified /\ [][NextCreate]_vars

\* record creation and the partial update
NextUpdate ==
    \/ DoCreateValid
    \/ DoUpdateFields

SpecUpdate == Init /\ [][NextUpdate]_vars

\* record creation alone, over every request and clock
NextFields ==
    \/ DoCreate

SpecFields == Init /\ [][NextFields]_vars

\* creates of the records the filters tell apart, the clock running
DoCreateListed ==
    /\ \E req \in ListedReqs, t \in Times :
           /\ now <= t
           /\ CreateAuditLog(req, t, t, t, FALSE)
    /\ UNCHANGED <<sn, http, cancelled, inflight>>

\* a list call on the table as the creates left it (a list call changes
\* nothing, so one after another reaches no further table)
DoListPaged ==
    /\ last.op # "list"
    /\ \E f \in PageFilters : ListAuditLogs(f, FALSE)
    /\ UNCHANGED <<sn, http, cancelled, inflight>>

DoListFiltered ==
    /\ last.op # "list"
    /\ \E f \in FieldFilters : ListAuditLogs(f, FALSE)
    /\ UNCHANGED <<sn, http, cancelled, inflight>>

\* listing over the stored records
NextList ==
    \/ DoCreateListed
    \/ DoListPaged
    \/ DoListFiltered

SpecList == InitWith({DefaultConfig}) /\ [][NextList]_vars

DoSendNotification == \E log \in NotifiedLogs : SendNotification(log)

DoChannelSend == \E ch \in Channels, ok \in BOOLEAN : ChannelSend(ch, ok)

\* one SendNotification call after another, its goroutines interleaved
NextNotify ==
    \/ DoSendNotification
    \/ Dispatch
    \/ DoChannelSend
    \/ CloseErrors
    \/ Collect
    \/ Return

SpecNotify == InitWith(NotificationConfigs) /\ [][NextNotify]_vars

\* the same with every goroutine of the call scheduled again and again and
\* every transport Send returning
SpecNotifyFair ==
    /\ InitWith(NotificationConfigs)
    /\ [][NextNotify]_vars
    /\ WF_vars(Dispatch)
    /\ \A ch \in Channels : WF_vars(\E ok \in BOOLEAN : ChannelSend(ch, ok))
    /\ WF_vars(CloseErrors)
    /\ WF_vars(Collect)
    /\ WF_vars(Return)

\* the request bodies the create handler tells apart
HttpBodies ==
    {BaseReq,
     [BaseReq EXCEPT !.tenant_id = ""],
     [BaseReq EXCEPT !.ip = IP_Empty],
     [BaseReq EXCEPT !.status = "bogus"]}

\* the credential of the requests whose handlers are under study
ApiKeyCred == [bearer |-> NoBearer, header |-> "key-1", query |-> ""]

DoHttpCreate ==
    \E malformed \in BOOLEAN, body \in HttpBodies, fault \in BOOLEAN :
        HandleCreateAuditLog(ApiKeyCred, malformed, body, now, now, now, fault)

DoHttpGet ==
    \E id \in Ids \ {EmptyId}, fault \in BOOLEAN :
        HandleGetAuditLog(ApiKeyCred, id, fault)

DoHttpList ==
    \E badQuery \in BOOLEAN, fault \in BOOLEAN :
        HandleListAuditLogs(ApiKeyCred, badQuery, FALSE, NoFilter, fault)

DoHttpDelete ==
    \E id \in Ids \ {EmptyId}, fault1 \in BOOLEAN, fault2 \in BOOLEAN :
        HandleDeleteAuditLog(ApiKeyCred, id, fault1, fault2)

DoHttpUpdate ==
    \E id \in Ids \ {EmptyId}, malformed \in BOOLEAN, req \in StatusReqs, fault \in BOOLEAN :
        HandleUpdateAuditLogStatus(ApiKeyCred, id, malformed, req, now, fault)

DoHttpStats ==
    \E tenantID \in {"", "tenant-123"}, badQuery \in BOOLEAN, fault \in BOOLEAN :
        HandleGetAuditLogStats(ApiKeyCred, tenantID, badQuery, 1, MaxClock, fault)

\* the handlers behind an accepted credential, the store failing or not
NextHttp ==
    \/ DoHttpCreate
    \/ DoHttpGet
    \/ DoHttpList
    \/ DoHttpDelete
    \/ DoHttpUpdate
    \/ DoHttpStats

SpecHttp == InitWith({DefaultConfig}) /\ [][NextHttp]_vars

DoAuthCreate ==
    \E cr \in Credentials : HandleCreateAuditLog(cr, FALSE, BaseReq, now, now, now, FALSE)

DoAuthGet ==
    \E cr \in Credentials : HandleGetAuditLog(cr, 1, FALSE)

DoAuthList == \E cr \in Credentials : HandleListAuditLogs(cr, FALSE, FALSE, NoFilter, FALSE)

DoAuthDelete ==
    \E cr \in Credentials : HandleDeleteAuditLog(cr, 1, FALSE, FALSE)

DoAuthUpdate ==
    \E cr \in Credentials :
        HandleUpdateAuditLogStatus(cr, 1, FALSE,
            [status |-> "completed", data |-> NoData, meta |-> NilMeta], now, FALSE)

DoAuthStats ==
    \E cr \in Credentials :
        HandleGetAuditLogStats(cr, "tenant-123", FALSE, 1, MaxClock, FALSE)

DoHealth ==
    \E route \in HealthRoutes, cr \in Credentials, dbDown \in BOOLEAN :
        HandleHealth(route, cr, dbDown)

DoPreflight == \E cr \in Credentials : Preflight(cr)

\* every route under every credential
NextAuth ==
    \/ DoAuthCreate
    \/ DoAuthGet
    \/ DoAuthList
    \/ DoAuthDelete
    \/ DoAuthUpdate
    \/ DoAuthStats
    \/ DoHealth
    \/ DoPreflight

SpecAuth == InitWith({DefaultConfig}) /\ [][NextAuth]_vars

\* the requests a round trip tells apart: every metadata map and every payload
RoundTripReqs ==
    {[BaseReq EXCEPT !.meta = m] : m \in {NilMeta, EmptyMeta, Meta1, Meta2, MetaAB}}
    \cup {[BaseReq EXCEPT !.data = d] :
              d \in {Data1, DataEmpty, DataOrdered, DataUnordered, DataRepeated}}

DoCreateRoundTrip ==
    /\ \E req \in RoundTripReqs : CreateAuditLog(req, now, now, now, FALSE)
    /\ UNCHANGED <<sn, http, cancelled, inflight>>

DoGetRoundTrip ==
    /\ \E id \in Ids \ {EmptyId} : GetAuditLogByID(id, FALSE)
    /\ UNCHANGED <<sn, http, cancelled, inflight>>

\* records written and read back
NextRoundTrip ==
    \/ DoCreateRoundTrip
    \/ DoGetRoundTrip

SpecRoundTrip == InitWith({DefaultConfig}) /\ [][NextRoundTrip]_vars

\* the configurations that differ in the vocabulary
VocabularyConfigs ==
    {DefaultConfig, [DefaultConfig EXCEPT !.StatusValues = <<"open", "closed">>]}

\* every status of either vocabulary, and one of neither
Statuses ==
    {DefaultStatusValues[i] : i \in DOMAIN DefaultStatusValues} \cup {"open", "closed", "bogus"}

DoCreateStatus ==
    /\ \E s \in {"", "open"} :
           CreateAuditLog([BaseReq EXCEPT !.status = s], now, now, now, FALSE)
    /\ UNCHANGED <<sn, http, cancelled, inflight>>

DoUpdateStatus ==
    /\ \E id \in Ids \ {EmptyId}, s \in Statuses :
           UpdateAuditLogStatus(id, [status |-> s, data |-> NoData, meta |-> NilMeta],
                                now, FALSE)
    /\ UNCHANGED <<sn, http, cancelled, inflight>>

\* records moved from status to status
NextStatus ==
    \/ DoCreateStatus
    \/ DoUpdateStatus

SpecStatus == InitWith(VocabularyConfigs) /\ [][NextStatus]_vars

DoCancelRequest == \E k \in Ids \ {EmptyId} : CancelRequest(k)

\* record creation, the requests' contexts and the notification goroutines
NextCancel ==
    \/ DoCreateNotified
    \/ DoCancelRequest
    \/ DoFanoutStart
    \/ DoFanoutFinish

SpecCancel == InitNotified /\ [][NextCancel]_vars

\* the records the statistics tell apart: tenant, status and event timestamp
DoCreateStats ==
    /\ \E tenant \in {"tenant-123", "tenant-9"}, s \in {"", "failed"}, t \in Times :
           /\ now <= t
           /\ CreateAuditLog([BaseReq EXCEPT !.tenant_id = tenant, !.status = s],
                             t, t, t, FALSE)
    /\ UNCHANGED <<sn, http, cancelled, inflight>>

\* the dates the handler parses from the query: any instant, the zero time included
DoStats ==
    /\ last.op # "stats"
    /\ \E tenant \in {"tenant-123", "tenant-9"}, startDate, endDate \in {ZeroTime} \cup Times,
          fault \in BOOLEAN :
           GetAuditLogStats(tenant, startDate, endDate, fault)
    /\ UNCHANGED <<sn, http, cancelled, inflight>>

\* records counted by tenant, period and error status
NextStats ==
    \/ DoCreateStats
    \/ DoStats

SpecStats == InitWith({DefaultConfig}) /\ [][NextStats]_vars

DoBeginDelete ==
    \E w \in Workers, id \in Ids \ {EmptyId} : BeginDelete(w, id)

DoDeleteGetByID == \E w \in Workers : DeleteGetByID(w)

DoDeleteDelete == \E w \in Workers : DeleteDelete(w)

\* deletes of two requests, interleaved statement by statement
NextRace ==
    \/ DoCreateValid
    \/ DoBeginDelete
    \/ DoDeleteGetByID
    \/ DoDeleteDelete

SpecRace == InitWith({DefaultConfig}) /\ [][NextRace]_vars

DoBeginDeleteOne == \E id \in Ids \ {EmptyId} : BeginDelete("w1", id)

\* a delete in progress among updates, gets and lists of other requests
NextRevive ==
    \/ DoCreateValid
    \/ DoBeginDeleteOne
    \/ DoDeleteGetByID
    \/ DoDeleteDelete
    \/ DoUpdate
    \/ DoGet
    \/ DoList

SpecRevive == InitWith({DefaultConfig}) /\ [][NextRevive]_vars

\* the filters of the list calls in progress: everything, by pages of 50 or 1
RaceFilters ==
    {[NoFilter EXCEPT !.limit = 50], [NoFilter EXCEPT !.limit = 1],
     [NoFilter EXCEPT !.limit = 1, !.offset = 1]}

DoBeginList == \E f \in RaceFilters : BeginList("w1", f)

DoListCount == \E w \in Workers : ListCount(w)

DoListPage == \E w \in Workers : ListPage(w)

\* a list whose two statements have creates and deletes of other requests
\* between them
NextRaceList ==
    \/ DoCreateValid
    \/ DoDelete
    \/ DoBeginList
    \/ DoListCount
    \/ DoListPage

SpecRaceList == InitWith({DefaultConfig}) /\ [][NextRaceList]_vars

\* every subset of the filter fields, on a page whose limit, offset and dates
\* all differ
PlaceholderFilters ==
    {[FilterOn(S, end) EXCEPT !.limit = 50, !.offset = 3] :
        S \in SUBSET FilterColumns, end \in {ZeroTime, 1}}

\* status updates with data and meta each provided or not
ComboReqs ==
    {[status |-> "failed", data |-> d, meta |-> m] :
        d \in {NoData, Data2}, m \in {NilMeta, Meta2}}

\* one list call, on any of the filters
DoBeginListFields ==
    /\ inflight["w1"].pc = "idle"
    /\ \E f \in PlaceholderFilters : BeginList("w1", f)

DoListCountOne == ListCount("w1")

DoListPageOne == ListPage("w1")

DoUpdateCombos ==
    /\ \E id \in Ids \ {EmptyId}, req \in ComboReqs :
           UpdateAuditLogStatus(id, req, now, FALSE)
    /\ UNCHANGED <<sn, http, cancelled, inflight>>

\* a create into the empty table
DoCreateFirst ==
    /\ persisted = {}
    /\ DoCreateValid

\* the statements List and UpdateStatus build, over a table with a record
NextPlaceholders ==
    \/ DoCreateFirst
    \/ DoBeginListFields
    \/ DoListCountOne
    \/ DoListPageOne
    \/ DoUpdateCombos

SpecPlaceholders == InitWith({DefaultConfig}) /\ [][NextPlaceholders]_vars

(***************************************************************************)
(* Properties                                                              *)
(***************************************************************************)
Occurrences(seq, x) == Cardinality({k \in 1..Len(seq) : seq[k] = x})

Elements(seq) == {seq[k] : k \in 1..Len(seq)}

\* C1: a create whose store write succeeds reports success and returns the
\* persisted record, and a fan-out that returns - with no, some or all of its
\* channels failed - logs the failure and leaves the table, the identifiers and
\* the record of persisted writes as they were.
C1_NotificationIsolated ==
    [][ /\ (persisted' # persisted) =>
              /\ last'.op = "create" /\ last'.ok
              /\ last'.log.id \in DOMAIN store'
              /\ store'[last'.log.id] = ToRow(last'.log)
        /\ (Len(fanout') < Len(fanout)) =>
              /\ last'.op = "fanout"
              /\ last'.logged = (last'.failed # {})
              /\ store' = store
              /\ persisted' = persisted ]_vars

\* C1 witness: a fan-out returned with all three channels failed and the record
\* it was about is still stored as it was returned.
C1_Witness ==
    /\ last.op = "fanout"
    /\ last.failed = Channels
    /\ last.logged
    /\ last.id \in DOMAIN store
    /\ store[last.id] = ToRow(last.log)

\* C2: the create call returns as soon as the row is written: at its return its
\* own fan-out goroutine has been handed over but has not started, and the
\* goroutines of earlier creates are where they were, started or not.
C2_CreateNeverWaits ==
    [][ (persisted' # persisted) =>
            /\ last'.op = "create" /\ last'.ok
            /\ Len(fanout') = Len(fanout) + 1
            /\ fanout'[Len(fanout')] = [log |-> last'.log, st |-> "spawned", ctx |-> Background]
            /\ \A i \in 1..Len(fanout) : fanout'[i] = fanout[i] ]_vars

\* C2 witness: a create has returned while the fan-out of an earlier create is
\* still in flight and its own has not started.
C2_Witness ==
    /\ last.op = "create" /\ last.ok
    /\ Len(fanout) = 2
    /\ fanout[1].st = "running"
    /\ fanout[2].st = "spawned"
    /\ fanout[2].log = last.log

\* C3: exactly one fan-out is started for each identifier whose write succeeded,
\* none for any other, and every goroutine alive is about a persisted record.
C3_FanoutOncePerWrite ==
    /\ \A id \in 1..nextId :
          Occurrences(spawned, id) = IF id \in persisted THEN 1 ELSE 0
    /\ Len(spawned) = Cardinality(persisted)
    /\ \A i \in 1..Len(fanout) : fanout[i].log.id \in persisted
    /\ (last.op = "create" /\ ~last.ok) => last.log = NoLog

\* C3 witness: one create was written and started its fan-out, a later one
\* failed in the store and started none.
C3_Witness ==
    /\ last.op = "create"
    /\ last.err = "store"
    /\ nextId = 2
    /\ persisted = {1}
    /\ spawned = <<1>>

\* a call the service's own checks refuse, told by its inputs alone
C4_Refused(r) ==
    \/ /\ r.op = "create"
       /\ \/ r.req.tenant_id = ""
          \/ r.req.ip = IP_NotAnIp
          \/ cfg.Enabled /\ r.req.status # "" /\ r.req.status \notin Elements(cfg.StatusValues)
    \/ /\ r.op = "update"
       /\ \/ r.id = EmptyId
          \/ r.req.status = ""
          \/ cfg.Enabled /\ r.req.status \notin Elements(cfg.StatusValues)
    \/ r.op \in {"get", "delete"} /\ r.id = EmptyId
    \/ /\ r.op = "list"
       /\ r.req.start_date # ZeroTime /\ r.req.end_date # ZeroTime
       /\ r.req.start_date > r.req.end_date

\* C4: a create with a missing field, a malformed IP or a disallowed status, an
\* update with an empty id, an empty status or a disallowed status, a get or a
\* delete with an empty id, and a list with start after end, each return an
\* error, invoke no store operation and leave the stored records as they were.
C4_RejectedNeverReachesStore ==
    [][ C4_Refused(last') =>
            /\ ~last'.ok /\ last'.err # ""
            /\ last'.calls = << >>
            /\ store' = store
            /\ nextId' = nextId
            /\ persisted' = persisted ]_vars

\* C4 witness: with a record stored, a create with ip "not-an-ip" was refused
\* without a store operation.
C4_Witness ==
    /\ last.op = "create"
    /\ last.req.ip = IP_NotAnIp
    /\ ~last.ok
    /\ last.calls = << >>
    /\ DOMAIN store # {}

\* C8: with the vocabulary enabled every stored status is one of the configured
\* status values; with the vocabulary disabled every stored status is a
\* non-empty string.
C8_StoredStatus ==
    \A id \in DOMAIN store :
        IF cfg.Enabled THEN store[id].status \in Elements(cfg.StatusValues)
        ELSE store[id].status # ""

\* C10: a delete of an id that is not stored fails with not-found and changes
\* nothing; a delete of a stored id, the store not failing, succeeds and removes
\* exactly that row; an id once removed is never stored again, a get of it fails
\* with not-found and no list page carries it.
C10_DeleteIsHard ==
    [][ /\ (last'.op = "delete" /\ last'.id # EmptyId /\ last'.id \notin DOMAIN store) =>
              /\ ~last'.ok /\ last'.err = "not_found"
              /\ store' = store
        /\ (last'.op = "delete" /\ last'.id \in DOMAIN store /\ last'.err # "store") =>
              /\ last'.ok
              /\ DOMAIN store' = DOMAIN store \ {last'.id}
              /\ \A i \in DOMAIN store' : store'[i] = store[i]
        /\ \A id \in 1..nextId : id \notin DOMAIN store => id \notin DOMAIN store'
        /\ (last'.op = "get" /\ last'.id # EmptyId /\ last'.id \notin DOMAIN store') =>
              ~last'.ok /\ last'.err = "not_found"
        /\ (last'.op = "list" /\ last'.ok) =>
              \A k \in 1..Len(last'.log.data) : last'.log.data[k].id \in DOMAIN store' ]_vars

\* C10 witness: the second delete of a record that was written and deleted
\* fails with not-found.
C10_Witness ==
    /\ last.op = "delete"
    /\ last.id \in persisted
    /\ last.id \notin DOMAIN store
    /\ last.err = "not_found"

\* C5: a create whose method is "post" or "Get", its other fields valid,
\* succeeds and the returned and stored record carries the uppercase method.
C5_MethodNormalized ==
    \A m \in {M_post, M_Get} :
        (last.op = "create" /\ last.req = [BaseReq EXCEPT !.method = m]) =>
            /\ last.ok
            /\ last.log.method = ToUpper(m)
            /\ last.log.id \in DOMAIN store
            /\ store[last.log.id].method = ToUpper(m)

\* the creates that differ from a valid one in the status alone
C6_Reqs == {[BaseReq EXCEPT !.status = s] : s \in {"", "failed", "closed", "bogus"}}

\* C6: on a create valid but for its status, the resolved status is the
\* request's when it is non-empty and the configured default otherwise; with
\* the vocabulary enabled and the resolved status outside the configured values
\* the create fails with invalid-status, its error naming the status and the
\* permitted values, and nothing is written; otherwise the record is stored and
\* returned with the resolved status.
C6_StatusResolved ==
    [][ (last'.op = "create" /\ last'.req \in C6_Reqs) =>
          LET resolved == IF last'.req.status # "" THEN last'.req.status
                          ELSE cfg.DefaultStatus
          IN  IF cfg.Enabled /\ resolved \notin Elements(cfg.StatusValues)
              THEN /\ ~last'.ok
                   /\ last'.err = "invalid_status"
                   /\ last'.detail = <<resolved, cfg.StatusValues>>
                   /\ last'.calls = << >>
                   /\ store' = store
              ELSE /\ last'.ok
                   /\ last'.log.status = resolved
                   /\ last'.log.id \in DOMAIN store'
                   /\ store'[last'.log.id].status = resolved ]_vars

\* C6 witness: with the vocabulary enabled a record is stored under the default
\* status and a create with status "bogus" has just been refused.
C6_Witness ==
    /\ cfg.Enabled
    /\ last.op = "create"
    /\ last.req.status = "bogus"
    /\ last.err = "invalid_status"
    /\ \E id \in DOMAIN store : store[id].status = cfg.DefaultStatus

\* C7: the record a successful create returns has an identifier the store
\* assigned, its timestamp, created_at and updated_at set, and updated_at equal
\* to created_at.
C7_StampedOnCreate ==
    (last.op = "create" /\ last.ok) =>
        /\ last.log.id # EmptyId
        /\ last.log.id \in DOMAIN store
        /\ last.log.timestamp # ZeroTime
        /\ last.log.created_at # ZeroTime
        /\ last.log.updated_at # ZeroTime
        /\ last.log.updated_at = last.log.created_at

\* the columns a status update never writes
C9_FrameColumns ==
    {"id", "tenant_id", "user_id", "resource", "event", "method", "ip",
     "environment", "timestamp", "created_at"}

\* C9: a successful status update sets status and updated_at, changes data only
\* if the request carries data and meta only if it carries meta, and changes no
\* other column of the record, no other record and not the set of records.
C9_UpdateFrame ==
    [][ (last'.op = "update" /\ last'.ok) =>
          LET id == last'.id
              req == last'.req
          IN  /\ id \in DOMAIN store
              /\ DOMAIN store' = DOMAIN store
              /\ store'[id].status = req.status
              /\ store'[id].updated_at = now'
              /\ now' >= store[id].updated_at
              /\ store'[id].data = IF req.data # NoData THEN req.data ELSE store[id].data
              /\ store'[id].meta = IF ~req.meta.isNil THEN Marshal(req.meta)
                                   ELSE store[id].meta
              /\ \A c \in C9_FrameColumns : store'[id][c] = store[id][c]
              /\ \A j \in DOMAIN store \ {id} : store'[j] = store[j] ]_vars

\* C9 witness: a status-only update at a later time has left data and meta of
\* its record as created, next to a second record.
C9_Witness ==
    /\ last.op = "update" /\ last.ok
    /\ last.req.data = NoData /\ last.req.meta.isNil
    /\ Cardinality(DOMAIN store) = 2
    /\ store[last.id].status = "failed"
    /\ store[last.id].data = Data1
    /\ store[last.id].meta = Marshal(Meta1)
    /\ store[last.id].updated_at > store[last.id].created_at

\* C11: the limit handed to the store and echoed in the result is 50 for a
\* requested limit <= 0, 1000 for one > 1000 and the requested one otherwise,
\* the offset 0 for a requested offset < 0 and the requested one otherwise; the
\* other filter fields reach the store as given and the result is the store's.
C11_PaginationClamped ==
    (last.op = "list" /\ last.ok) =>
        LET lim == IF last.req.limit <= 0 THEN 50
                   ELSE IF last.req.limit > 1000 THEN 1000 ELSE last.req.limit
            off == IF last.req.offset < 0 THEN 0 ELSE last.req.offset
        IN  /\ last.detail = [last.req EXCEPT !.limit = lim, !.offset = off]
            /\ last.log.limit = lim
            /\ last.log.offset = off
            /\ ((last.req.limit \in 1..1000 /\ last.req.offset >= 0) => last.detail = last.req)
            /\ \E o \in Orders(store, Matching(store, buildWhereClause(last.detail))) :
                   last.log = List(store, last.detail, o, FALSE).result

\* C11 witness: a list asked for limit 1001 and offset -1 over a stored record
\* was answered with limit 1000 and offset 0.
C11_Witness ==
    /\ last.op = "list" /\ last.ok
    /\ last.req.limit = 1001 /\ last.req.offset = -1
    /\ last.log.limit = 1000 /\ last.log.offset = 0
    /\ last.log.total >= 1

\* C12: in every list result has_more is true exactly when offset + limit is
\* less than total.
C12_HasMore ==
    (last.op = "list" /\ last.ok) =>
        (last.log.has_more <=> (last.log.offset + last.log.limit < last.log.total))

\* the stored records that satisfy every field the filter sets, both time bounds
\* inclusive
C13_Satisfying(f) ==
    {i \in DOMAIN store :
        /\ f.tenant_id = "" \/ store[i].tenant_id = f.tenant_id
        /\ f.user_id = "" \/ store[i].user_id = f.user_id
        /\ f.resource = "" \/ store[i].resource = f.resource
        /\ f.event = EmptyStr \/ store[i].event = f.event
        /\ f.method = EmptyStr \/ store[i].method = f.method
        /\ f.status = "" \/ store[i].status = f.status
        /\ f.environment = "" \/ store[i].environment = f.environment
        /\ f.start_date = ZeroTime \/ store[i].timestamp >= f.start_date
        /\ f.end_date = ZeroTime \/ store[i].timestamp <= f.end_date}

\* C13: for every filter the records a list matches are exactly the stored
\* records satisfying every set field, start and end inclusive; total is their
\* number whatever the limit and offset, the page holds only such records, and
\* a page from offset 0 with room for all of them holds them all.
C13_FilterExact ==
    (last.op = "list" /\ last.ok) =>
        LET sat == C13_Satisfying(last.req)
            page == {last.log.data[k].id : k \in 1..Len(last.log.data)}
        IN  /\ last.log.total = Cardinality(sat)
            /\ page \subseteq sat
            /\ Cardinality(page) = Len(last.log.data)
            /\ (last.log.offset = 0 /\ last.log.limit >= Cardinality(sat)) => page = sat
            /\ (last.req = FilterOn({}, ZeroTime)) => page = DOMAIN store

\* C13 witness: of two stored records a list by tenant with start and end both
\* at the second record's timestamp matched that record alone.
C13_Witness ==
    /\ last.op = "list" /\ last.ok
    /\ last.req = FilterOn({"tenant_id", "start_date"}, 2)
    /\ Cardinality(DOMAIN store) = 2
    /\ last.log.total = 1
    /\ Len(last.log.data) = 1
    /\ last.log.data[1].timestamp = 2
    /\ \E i \in DOMAIN store : store[i].timestamp = 1 /\ store[i].tenant_id = "tenant-123"

\* what the three channel rules say of a record, written out for the events and
\* environments of NotifiedLogs
C14_Should(ch) ==
    \/ ch = "email" /\ cfg.Email /\ sn.log.event \in {E_USER_DELETED, E_Security_Breach}
    \/ ch = "slack" /\ cfg.Slack /\ sn.log.environment = "production"
    \/ ch = "webhook" /\ cfg.Webhook

C15_Failed == {ch \in Channels : \E k \in 1..Len(sn.sent[ch]) : ~sn.sent[ch][k].ok}

\* C15: when SendNotification has returned every channel goroutine it started
\* has finished; it returned an error exactly when some channel failed, and the
\* errors it collected are those of the failed channels, each once, whatever
\* the order they arrived in.
C15_WaitsAndAggregates ==
    sn.pc = "returned" =>
        /\ \A ch \in Channels : sn.task[ch] # "running"
        /\ (sn.result = "error") <=> (C15_Failed # {})
        /\ {sn.collected[k].ch : k \in 1..Len(sn.collected)} = C15_Failed
        /\ Len(sn.collected) = Cardinality(C15_Failed)
        /\ sn.errors = << >>
        /\ \A k \in 1..Len(sn.collected) :
              \E j \in 1..Len(sn.sent[sn.collected[k].ch]) :
                  /\ sn.sent[sn.collected[k].ch][j].to = sn.collected[k].to
                  /\ ~sn.sent[sn.collected[k].ch][j].ok

\* C15 witness: the call returned an error that carries the webhook's failure
\* before the email's, the chat channel having succeeded.
C15_Witness ==
    /\ sn.pc = "returned"
    /\ sn.result = "error"
    /\ Len(sn.collected) = 2
    /\ sn.collected[1].ch = "webhook"
    /\ sn.collected[2].ch = "email"
    /\ sn.sent["slack"] = <<[to |-> "#audit-alerts", ok |-> TRUE]>>

\* C16: a started channel that has not finished can always make its next Send,
\* and the dispatch block of the next channel can always run, whatever the
\* other channels are doing.
C16_ChannelsIndependent ==
    /\ \A ch \in Channels : sn.task[ch] = "running" => ENABLED ChannelSend(ch, TRUE)
    /\ sn.pc = "dispatch" => ENABLED Dispatch

\* C16 witness: the chat and webhook channels have finished and the webhook's
\* error has been collected while the email channel has not returned from its
\* first Send.
C16_Witness ==
    /\ sn.pc = "collect"
    /\ sn.task["email"] = "running"
    /\ sn.sent["email"] = << >>
    /\ sn.task["slack"] = "done"
    /\ sn.task["webhook"] = "done"
    /\ Len(sn.collected) = 1
    /\ sn.collected[1].ch = "webhook"

\* C17: when SendNotification has returned, every started channel has made a
\* Send to each of its configured recipients.
C17_EveryRecipientAttempted ==
    sn.pc = "returned" =>
        \A ch \in Channels :
            sn.task[ch] = "done" =>
                {sn.sent[ch][k].to : k \in 1..Len(sn.sent[ch])}
                    = {Recipients(cfg, ch)[k] : k \in 1..Len(Recipients(cfg, ch))}

\* the request carries a bearer token signed with the shared secret and still
\* valid, or an API key of the allow-list in the header or in the query
C18_Credentialed(cr) ==
    \/ /\ cr.bearer.scheme = "Bearer"
       /\ cr.bearer.parses
       /\ cr.bearer.alg \in {"HS256", "HS384", "HS512"}
       /\ cr.bearer.key = cfg.JWTSecret
       /\ ~cr.bearer.expired
    \/ \E i \in 1..Len(cfg.APIKeys) :
           cfg.APIKeys[i] # "" /\ cfg.APIKeys[i] \in {cr.header, cr.query}

\* C18: a request to an audit route that carries neither a valid bearer token
\* nor a listed API key is answered 401, its handler does not run, and the
\* service, the store and the fan-out are left as they were; a request to
\* /health, /ready or /live reaches its handler whatever credentials it has.
C18_AuthRequired ==
    [][/\ (http'.route \in AuditRoutes /\ ~C18_Credentialed(http'.creds)) =>
             /\ http'.status = 401
             /\ ~http'.ran
             /\ UNCHANGED <<store, nextId, last, fanout, persisted, spawned>>
       /\ http'.route \in HealthRoutes => (http'.ran /\ http'.status \in {200, 503})
      ]_vars

\* C18 witness: with a record stored, a delete request whose token names the
\* algorithm "none" has been answered 401 without its handler running.
C18_Witness ==
    /\ http.route = "delete"
    /\ http.creds.bearer.alg = "none"
    /\ http.creds.header = ""
    /\ http.status = 401
    /\ ~http.ran
    /\ 1 \in DOMAIN store

\* the store failed under the latest service call: an error the repository
\* returned for a reason other than the absence of the id
C19_StoreFailed ==
    \/ last.err \in {"db", "store"}
    \/ last.op = "delete" /\ ~last.ok /\ last.calls # << >> /\ last.id \in DOMAIN store

\* C19: the status of a failed request names the kind of failure: 404 when a
\* get, delete or status update names an id the store does not hold, 500 when
\* the store failed, on every audit route, and 400 when the service refused a
\* create request as invalid.
C19_StatusByFailure ==
    http.called =>
        /\ (/\ http.route \in {"get", "delete", "update"}
            /\ last.err = "not_found"
            /\ last.id \notin DOMAIN store) => http.status = 404
        /\ C19_StoreFailed => http.status = 500
        /\ (/\ http.route = "create"
            /\ last.err \in {"validation", "invalid_ip", "invalid_status"}) =>
               http.status = 400

\* C20: a record fetched by the id its creation returned, right after that
\* creation, carries a metadata map equal to the one of the request and the
\* data payload of the request, member for member.
C20_RoundTrip ==
    [][(/\ last.op = "create" /\ last.ok
        /\ last'.op = "get" /\ last'.ok
        /\ last'.id = last.log.id) =>
           /\ last'.log.meta = last.req.meta
           /\ last'.log.data = last.req.data
      ]_vars

\* C21: with the vocabulary enabled, whatever the status of a stored record,
\* an update of it to any status of the vocabulary can be made, succeeds and
\* leaves the record with that status.
C21_NoTransitionRefused ==
    cfg.Enabled =>
        \A id \in DOMAIN store : \A i \in DOMAIN cfg.StatusValues :
            ENABLED (/\ UpdateAuditLogStatus(id,
                            [status |-> cfg.StatusValues[i], data |-> NoData, meta |-> NilMeta],
                            now, FALSE)
                     /\ UNCHANGED <<sn, http, cancelled, inflight>>
                     /\ last'.ok
                     /\ store'[id].status = cfg.StatusValues[i])

\* C21 witness: one record has been moved to the last status of the default
\* vocabulary, the other back to its first, each by a successful update.
C21_Witness ==
    /\ cfg.Enabled
    /\ DOMAIN store = {1, 2}
    /\ store[1].status = "archived"
    /\ store[2].status = "pending"
    /\ last.op = "update" /\ last.ok /\ last.id = 2
    /\ last.req.status = "pending"

\* C22: once the context of the request that created a record is done, the
\* record's notification goroutine still holds a context that is not done, and
\* while it is in SendNotification it can return with every channel sent.
C22_FanoutDetached ==
    \A i \in DOMAIN fanout :
        fanout[i].log.id \in cancelled =>
            /\ fanout[i].ctx \notin cancelled
            /\ fanout[i].st = "running" =>
                   ENABLED (FanoutFinish(i, {}) /\ UNCHANGED <<sn, http, cancelled, inflight>>)

\* C22 witness: the request's context is done while the goroutine of its
\* record is in SendNotification with the chat and webhook channels to send.
C22_Witness ==
    \E i \in DOMAIN fanout :
        /\ fanout[i].st = "running"
        /\ fanout[i].log.id \in cancelled
        /\ CtxSenders \subseteq Eligible(cfg, fanout[i].log)

\* the stored records of the tenant whose event timestamp lies in the period
C23_InPeriod(tenant, startDate, endDate) ==
    {i \in DOMAIN store :
        /\ store[i].tenant_id = tenant
        /\ startDate <= store[i].timestamp
        /\ store[i].timestamp <= endDate}

\* C23: the statistics returned for a tenant and a period count the tenant's
\* stored records with an event timestamp in the period, and among them the
\* records in the configured error status, and echo the tenant and the period.
C23_StatsCounts ==
    (last.op = "stats" /\ last.ok) =>
        LET counted == C23_InPeriod(last.log.tenant_id, last.log.start_date, last.log.end_date)
        IN  /\ last.log.total_logs = Cardinality(counted)
            /\ last.log.error_count =
                   Cardinality({i \in counted : store[i].status = cfg.ErrorStatus})
            /\ last.log.error_count <= last.log.total_logs
            /\ last.log.tenant_id = last.req.tenant_id
            /\ last.log.start_date = last.req.start_date
            /\ last.log.end_date = last.req.end_date

\* C24: the page of a list result holds at most limit records, as many as the
\* matching records leave from the offset on, each of them matching and none
\* twice, newest first; offset matching records, none of them on the page, are
\* at least as new as every record of the page, the other matching records at
\* least as old; from an offset at or past the total the page is empty.
C24_PageIsSlice ==
    (last.op = "list" /\ last.ok) =>
        LET sat == C13_Satisfying(last.req)
            data == last.log.data
            off == last.log.offset
            lim == last.log.limit
            page == {data[k].id : k \in 1..Len(data)}
            left == IF Cardinality(sat) > off THEN Cardinality(sat) - off ELSE 0
        IN  /\ Len(data) <= lim
            /\ Len(data) = IF left < lim THEN left ELSE lim
            /\ page \subseteq sat
            /\ Cardinality(page) = Len(data)
            /\ \A j, k \in 1..Len(data) : j < k => data[j].timestamp >= data[k].timestamp
            /\ \E before \in SUBSET (sat \ page) :
                   /\ Cardinality(before) = IF off < Cardinality(sat) THEN off
                                            ELSE Cardinality(sat)
                   /\ \A b \in before, q \in page : store[b].timestamp >= store[q].timestamp
                   /\ \A a \in sat \ (page \cup before), q \in page :
                          store[a].timestamp <= store[q].timestamp
            /\ off >= Cardinality(sat) => data = << >>

\* C24 witness: of two matching records a list with limit 1 from offset 1
\* returned the older one alone.
C24_Witness ==
    /\ last.op = "list" /\ last.ok
    /\ last.log.limit = 1 /\ last.log.offset = 1
    /\ last.log.total = 2
    /\ Len(last.log.data) = 1
    /\ last.log.data[1].timestamp = 1
    /\ \E i \in DOMAIN store : store[i].timestamp = 2

\* the errors a channel has put on the errors channel in this call
C25_Reports(ch) ==
    Cardinality({k \in DOMAIN sn.errors : sn.errors[k].ch = ch})
        + Cardinality({k \in DOMAIN sn.collected : sn.collected[k].ch = ch})

\* C25: in a SendNotification call every channel reports at most one error and
\* at most three wait in the buffer; a running channel can always make a Send
\* that fails and report it; errors is closed only when no dispatched channel
\* is still running, and stays closed to the end of the call; and a call that
\* has begun to dispatch returns.
C25_NoDeadlock ==
    /\ [](\A ch \in Channels :
            /\ C25_Reports(ch) <= 1
            /\ sn.task[ch] = "running" => (~sn.closed /\ ENABLED ChannelSend(ch, FALSE)))
    /\ [](Len(sn.errors) <= 3)
    /\ [][(sn.closed /\ sn.pc = "collect") => sn'.closed]_vars
    /\ (sn.pc = "dispatch" ~> sn.pc = "returned")

\* C25 witness: a call has returned after all three channels reported an error.
C25_Witness ==
    /\ sn.pc = "returned"
    /\ sn.closed
    /\ Len(sn.collected) = 3
    /\ sn.result = "error"

\* C26: when two DeleteAuditLog calls for one id, both begun while its row was
\* stored, have returned, one returned nil and the other an error, the row is
\* gone, and at no step does a DELETE that succeeds find the row already gone.
C26_OneDeleteWins ==
    [][/\ \A w \in Workers :
            (inflight[w].pc = "Delete" /\ inflight'[w].pc = "returned"
                /\ inflight'[w].err = "") =>
                (inflight[w].id \in DOMAIN store /\ inflight[w].id \notin DOMAIN store')
       /\ (/\ \A w \in Workers :
                 /\ inflight'[w].op = "delete" /\ inflight'[w].pc = "returned"
                 /\ inflight'[w].present
            /\ inflight'["w1"].id = inflight'["w2"].id) =>
              /\ Cardinality({w \in Workers : inflight'[w].err = ""}) = 1
              /\ inflight'["w1"].id \notin DOMAIN store'
      ]_vars

\* C26 witness: both calls passed the existence check before either DELETE
\* ran; the first has returned nil, the second the DELETE's error.
C26_Witness ==
    /\ inflight["w1"].op = "delete" /\ inflight["w2"].op = "delete"
    /\ inflight["w1"].id = inflight["w2"].id
    /\ inflight["w1"].pc = "returned" /\ inflight["w1"].err = ""
    /\ inflight["w2"].pc = "returned" /\ inflight["w2"].err = "store"

\* the identifiers whose row was inserted and has been deleted since
C27_Deleted == persisted \ DOMAIN store

\* C27: no step brings back the row of a deleted identifier; an update of a
\* deleted identifier returns not found and leaves the table as it is, a get of
\* one fails, and no page of a list holds one.
C27_DeletedStaysDeleted ==
    [][/\ DOMAIN store' \cap C27_Deleted = {}
       /\ (last' # last /\ last'.op = "update" /\ last'.calls # << >>
              /\ last'.id \in C27_Deleted) =>
              (last'.err = "not_found" /\ store' = store)
       /\ (last' # last /\ last'.op = "get" /\ last'.id \in C27_Deleted) => ~last'.ok
       /\ (last' # last /\ last'.op = "list" /\ last'.ok) =>
              \A k \in DOMAIN last'.log.data : last'.log.data[k].id \notin C27_Deleted
      ]_vars

\* C27 witness: a delete has returned nil and a later update of the same
\* identifier has returned not found, a second record still being stored.
C27_Witness ==
    /\ inflight["w1"].op = "delete" /\ inflight["w1"].pc = "returned"
    /\ inflight["w1"].err = ""
    /\ last.op = "update" /\ last.err = "not_found"
    /\ last.id = inflight["w1"].id
    /\ last.id \in persisted
    /\ DOMAIN store # {}

\* C28: when List returns, its page holds at most total - offset records (none
\* when the offset is at or past the total), and with has_more false the offset
\* and the page together cover every record matching at the page statement.
C28_PageWithinTotal ==
    [][\A w \in Workers :
          (inflight[w].pc = "page" /\ inflight'[w].pc = "returned") =>
              LET r == inflight'[w]
                  rest == IF r.total > r.filter.offset THEN r.total - r.filter.offset ELSE 0
              IN  /\ Len(r.data) <= rest
                  /\ ~r.has_more =>
                         r.filter.offset + Len(r.data) >= Cardinality(C13_Satisfying(r.filter))
      ]_vars

\* C29: the stored records carry pairwise distinct identifiers, each its own
\* key, and a create that reached the store leaves every existing record as it
\* was and adds exactly one record under an identifier never used before, the
\* one it answers with.
C29_DistinctIds ==
    /\ [](\A i \in DOMAIN store : store[i].id = i /\ i # EmptyId /\ i \in persisted)
    /\ [][(nextId' # nextId /\ last'.ok) =>
             /\ \A i \in DOMAIN store : i \in DOMAIN store' /\ store'[i] = store[i]
             /\ \E k \in DOMAIN store' \ (persisted \cup {EmptyId}) :
                    /\ DOMAIN store' = DOMAIN store \cup {k}
                    /\ store'[k].id = k
                    /\ last'.log.id = k
         ]_vars

\* a create answered after another record was deleted, next to a stored record
C29_Witness ==
    /\ last.op = "create" /\ last.ok
    /\ C27_Deleted # {}
    /\ last.log.id \in DOMAIN store

\* the filter fields that are set, as column, operator and value
C30_SetFields(f) ==
    {[col |-> c.col, op |-> c.op, val |-> c.val] :
        c \in {FilterFields(f)[i] : i \in {j \in 1..Len(FilterFields(f)) : FilterFields(f)[j].set}}}

\* the page statement of filter f numbers its conditions $1..$n in argument
\* order, has one condition per set field, bound to that field's value, and
\* binds LIMIT and OFFSET to $n+1 and $n+2
C30_ListBound(f) ==
    LET q == PageStatement(f)
        n == Len(q.conditions)
    IN  /\ n = Cardinality(C30_SetFields(f))
        /\ Len(q.args) = n + 2
        /\ \A i \in 1..n : q.conditions[i].ph = i
        /\ \A c \in C30_SetFields(f) :
               \E i \in 1..n :
                   /\ q.conditions[i].col = c.col /\ q.conditions[i].op = c.op
                   /\ q.args[q.conditions[i].ph] = c.val
                   /\ \A j \in 1..n :
                          (q.conditions[j].col = c.col /\ q.conditions[j].op = c.op) => j = i
        /\ q.limitPh = n + 1 /\ q.offsetPh = n + 2
        /\ q.args[q.limitPh] = f.limit
        /\ q.args[q.offsetPh] = f.offset

\* the columns an update request assigns through a placeholder
C30_SetColumns(req) ==
    {"status"} \cup (IF req.data # NoData THEN {"data"} ELSE {})
               \cup (IF ~req.meta.isNil THEN {"meta"} ELSE {})

\* the UPDATE statement numbers its assignments in argument order, binds each
\* to the value of its column, and binds the id to the placeholder after them
C30_UpdateBound(id, req) ==
    LET q == UpdateStatement(id, req)
        n == Len(q.sets)
    IN  /\ {q.sets[i].col : i \in 1..n} = C30_SetColumns(req)
        /\ n = Cardinality(C30_SetColumns(req))
        /\ Len(q.args) = n + 1
        /\ \A i \in 1..n : q.sets[i].ph = i
        /\ \A i \in 1..n :
               q.args[q.sets[i].ph] =
                   (IF q.sets[i].col = "status" THEN req.status
                    ELSE IF q.sets[i].col = "data" THEN req.data
                    ELSE Marshal(req.meta))
        /\ q.idPh = n + 1
        /\ q.args[n + 1] = id

\* C30: every statement List has built for its filter, and every UPDATE that
\* UpdateStatus has sent, binds each placeholder to the value of its own
\* field: conditions $1..$n, LIMIT $n+1, OFFSET $n+2, and the id after the
\* last SET argument.
C30_PlaceholdersBound ==
    /\ \A w \in Workers :
           (inflight[w].op = "list" /\ inflight[w].pc \in {"page", "returned"}) =>
               C30_ListBound(inflight[w].filter)
    /\ (last.op = "update" /\ last.calls = <<"UpdateStatus">>) =>
           C30_UpdateBound(last.id, last.req)

\* a list on five set fields has returned and an update carrying both data and
\* meta has changed a record
C30_Witness ==
    /\ inflight["w1"].pc = "returned"
    /\ Cardinality(C30_SetFields(inflight["w1"].filter)) >= 5
    /\ last.op = "update" /\ last.ok
    /\ last.req.data # NoData /\ ~last.req.meta.isNil

====
